---- MODULE Spec2Model ----
(***************************************************************************)
(* State-machine model of the music-tools timing core:                    *)
(*   - useTapTempo   (src/src/hooks/use-tap-tempo.ts, lines 1-88)          *)
(*   - useMetronome  (src/src/hooks/use-tap-tempo.ts, lines 90-507)        *)
(*   - useDrumEngine (src/src/hooks/use-drum-engine.ts)                    *)
(*   - useTuner and its pitch detector (src/unnamed/part_007,              *)
(*     src/src/lib/tuner-utils.ts)                                         *)
(* Each hook is an independent React component instance; each has its own  *)
(* specification (SpecTap, SpecMetro, SpecDrum, ...) in which the variables of  *)
(* the other hooks stay at their constructed values.                       *)
(***************************************************************************)
EXTENDS Integers, Sequences, FiniteSets, Bags, TLC

VARIABLES
  \* ---- useTapTempo ----
  tapOpts,          \* the hook options {maxTaps, resetAfterMs}
  tapNow,           \* performance.now(), in ms
  tapsRef,          \* tapsRef.current: the window of tap timestamps
  tapCount,         \* React state tapCount
  tapBpm,           \* React state bpm (Null or a number)
  resetTimeoutRef,  \* resetTimeoutRef.current: Null or a timeout id
  tapTimeouts,      \* the browser's pending timeouts: set of [id, due]
  tempoCalls,       \* observer: arguments onTempoChange was called with by the last operation
  tapEvent,         \* observer: the operation that ran last
  \* ---- useMetronome ----
  metroOpts,        \* the hook options (beatsPerMeasure, accentBeats, bpm, countIn, speedTrainer, timer)
  metro,            \* the hook's React state, its refs and the browser's live intervals
  metroEvent,       \* observer: the operation that ran last, with its argument
  \* ---- useDrumEngine ----
  drumProject,      \* the project prop, which projectRef.current follows
  drum,             \* the hook's React state, its refs, the browser's live intervals and pending play() calls
  drumEvent,        \* observer: the operation that ran last, with its inputs
  \* ---- useTuner ----
  pitch,            \* one call of detectPitchAutocorrelation: its arguments and its result
  tuner,            \* the hook's React state, its refs and the connected script processors
  tunerEvent,       \* observer: the operation that ran last, with what it saw
  \* ---- the drum looper page ----
  editor,           \* React state project of the page
  editorEvent,      \* observer: the mutation that ran last
  \* ---- pure helpers of the pages and of the drum engine ----
  urlState,         \* the drum looper page's shared state: search.state and what the page made of it
  metroPage,        \* the metronome page: subdivision, beat and bpm with what the helpers return
  swingCall         \* one call of getSwingOffsetSeconds: its arguments and its result

tapVars == <<tapOpts, tapNow, tapsRef, tapCount, tapBpm, resetTimeoutRef,
             tapTimeouts, tempoCalls, tapEvent>>

metroVars == <<metroOpts, metro, metroEvent>>

drumVars == <<drumProject, drum, drumEvent>>

tunerVars == <<pitch, tuner, tunerEvent>>

editorVars == <<editor, editorEvent>>

helperVars == <<urlState, metroPage, swingCall>>

vars == <<tapVars, metroVars, drumVars, tunerVars, editorVars, helperVars>>

\* What an operation of one hook leaves alone: its options and the other hooks.
TapFrame == UNCHANGED <<tapOpts, metroVars, drumVars, tunerVars, editorVars, helperVars>>
MetroFrame == UNCHANGED <<metroOpts, tapVars, drumVars, tunerVars, editorVars, helperVars>>
DrumFrame == UNCHANGED <<tapVars, metroVars, tunerVars, editorVars, helperVars>>
PitchFrame == UNCHANGED <<tapVars, metroVars, drumVars, tuner, tunerEvent, editorVars, helperVars>>
TunerFrame == UNCHANGED <<tapVars, metroVars, drumVars, pitch, editorVars, helperVars>>
EditorFrame == UNCHANGED <<tapVars, metroVars, drumVars, tunerVars, helperVars>>
UrlStateFrame ==
  UNCHANGED <<tapVars, metroVars, drumVars, tunerVars, editorVars, metroPage, swingCall>>
MetroPageFrame ==
  UNCHANGED <<tapVars, metroVars, drumVars, tunerVars, editorVars, urlState, swingCall>>
SwingFrame ==
  UNCHANGED <<tapVars, metroVars, drumVars, tunerVars, editorVars, urlState, metroPage>>

\* JavaScript null for number-valued references and state.
Null == -1

(***************************************************************************)
(* Bounds of the model                                                     *)
(***************************************************************************)
MaxTapTime == 4000          \* performance.now() is explored up to this value
MaxPendingTimeouts == 2     \* pending browser timeouts the model can hold
MaxLiveIntervals == 3       \* live browser intervals the metronome model can hold
MaxRunLog == 15             \* clicks of one play() run the observer records
MaxLoopCount == 3           \* speed-trainer loops explored when loops = 0 (infinite)
MaxNesting == 4             \* nested startInterval -> tick calls before the stack is taken to overflow
MaxPendingPlays == 2        \* play() calls of the drum engine that can be awaiting at once
MaxDrumIntervals == 2       \* live browser intervals the drum model can hold
MaxDrumLoop == 2            \* the drum scheduler's loop counter is explored up to this value
MaxOverdueMs == 100         \* how far the audio clock is explored past nextNoteTime
MaxFailures == 1            \* failed play() calls explored in one session
TunerBufferLength == 72     \* samples in an analysis buffer (the hook's BUFFER_SIZE is 4096)
MaxPendingStarts == 1       \* start() calls of the tuner that can await the microphone at once
MaxProcessors == 2          \* script processors that can be connected at once
MaxSections == 2            \* sections the edited project can hold

(***************************************************************************)
(* useTapTempo                                                             *)
(***************************************************************************)
DEFAULT_MAX_TAPS == 8
DEFAULT_RESET_AFTER_MS == 2000
TAP_MIN_BPM == 20
TAP_MAX_BPM == 300
MS_PER_MINUTE == 60000

\* Option values the hook is constructed with (the defaults included).
TapMaxTapsChoices == {1, 2, 3, DEFAULT_MAX_TAPS}
TapResetChoices == {DEFAULT_RESET_AFTER_MS, 4000}
\* Time between two events, in ms (0: the same reading of the clock).
TapDeltas == {0, 500, 1000, 3500}

RECURSIVE SumSeq(_)
SumSeq(s) == IF s = <<>> THEN 0 ELSE Head(s) + SumSeq(Tail(s))

Min2(a, b) == IF a < b THEN a ELSE b
Max2(a, b) == IF a > b THEN a ELSE b

\* intervals.push(taps[i] - taps[i - 1]) for i = 1 .. length-1
TapIntervals(taps) == [i \in 1..(Len(taps) - 1) |-> taps[i + 1] - taps[i]]

\* Mutant of RoundedBpm: the quotient truncated (Math.floor) instead of rounded.
RoundedBpmTruncated(sum, count) == (MS_PER_MINUTE * count) \div sum

\* Math.round(60000 / (sum / count)) for sum > 0: floor(x + 1/2) in exact arithmetic.
RoundedBpm(sum, count) == (2 * MS_PER_MINUTE * count + sum) \div (2 * sum)

TapClampBpm(calculated) == Max2(TAP_MIN_BPM, Min2(TAP_MAX_BPM, calculated))

\* averageInterval = 0 gives 60000 / 0 = Infinity, which Math.min caps at 300.
CalculatedTapBpm(taps) ==
  LET intervals == TapIntervals(taps)
      sum == SumSeq(intervals)
  IN IF sum = 0 THEN TAP_MAX_BPM
     ELSE TapClampBpm(RoundedBpm(sum, Len(intervals)))

\* Mutant of PushTap: pop() instead of shift(), the newest timestamp is dropped.
PushTapDropsNewest(taps, now, maxTaps) ==
  LET pushed == Append(taps, now)
  IN IF Len(pushed) > maxTaps THEN SubSeq(pushed, 1, Len(pushed) - 1) ELSE pushed

\* tapsRef.current.push(now); if (length > maxTaps) shift()
PushTap(taps, now, maxTaps) ==
  LET pushed == Append(taps, now)
  IN IF Len(pushed) > maxTaps THEN Tail(pushed) ELSE pushed

\* Mutant of ClearPendingTimeout: the previous timeout is left pending.
ClearPendingTimeoutSkipped(timeouts, ref) == timeouts

\* if (resetTimeoutRef.current) clearTimeout(resetTimeoutRef.current)
ClearPendingTimeout(timeouts, ref) ==
  IF ref # Null THEN {t \in timeouts : t.id # ref} ELSE timeouts

\* The id window.setTimeout returns: one no pending timeout carries.
FreshTimeoutId(timeouts) ==
  CHOOSE i \in 1..(MaxPendingTimeouts + 1) :
    /\ i \notin {t.id : t \in timeouts}
    /\ \A j \in 1..(i - 1) : j \in {t.id : t \in timeouts}

InitTap ==
  /\ tapOpts \in [maxTaps : TapMaxTapsChoices, resetAfterMs : TapResetChoices]
  /\ tapNow = 0
  /\ tapsRef = <<>>
  /\ tapCount = 0
  /\ tapBpm = Null
  /\ resetTimeoutRef = Null
  /\ tapTimeouts = {}
  /\ tempoCalls = <<>>
  /\ tapEvent = "init"

\* Time passes; a timeout is never left pending beyond its due time.
TapAdvance ==
  /\ \E d \in TapDeltas \ {0} :
       /\ tapNow + d <= MaxTapTime
       /\ \A t \in tapTimeouts : tapNow + d <= t.due
       /\ tapNow' = tapNow + d
  /\ tempoCalls' = <<>>
  /\ tapEvent' = "advance"
  /\ UNCHANGED <<tapsRef, tapCount, tapBpm, resetTimeoutRef, tapTimeouts>>
  /\ TapFrame

\* tap()
Tap ==
  /\ Cardinality(tapTimeouts) < MaxPendingTimeouts
  /\ LET cleared == ClearPendingTimeout(tapTimeouts, resetTimeoutRef)
         id == FreshTimeoutId(cleared)
         taps == PushTap(tapsRef, tapNow, tapOpts.maxTaps)
     IN /\ tapTimeouts' = cleared \cup {[id |-> id, due |-> tapNow + tapOpts.resetAfterMs]}
        /\ resetTimeoutRef' = id
        /\ tapsRef' = taps
        /\ tapCount' = Len(taps)
        /\ IF Len(taps) >= 2
             THEN /\ tapBpm' = CalculatedTapBpm(taps)
                  /\ tempoCalls' = <<CalculatedTapBpm(taps)>>
             ELSE /\ tapBpm' = tapBpm
                  /\ tempoCalls' = <<>>
  /\ tapEvent' = "tap"
  /\ UNCHANGED tapNow
  /\ TapFrame

\* The body of reset(): shared by the explicit call and the timeout callback.
ResetBody ==
  /\ tapsRef' = <<>>
  /\ tapCount' = 0
  /\ tapBpm' = Null
  /\ tapTimeouts' = ClearPendingTimeout(tapTimeouts, resetTimeoutRef)
  /\ resetTimeoutRef' = Null
  /\ tempoCalls' = <<>>

\* reset() called by the hook's user
TapReset ==
  /\ ResetBody
  /\ tapEvent' = "reset"
  /\ UNCHANGED tapNow
  /\ TapFrame

\* The browser runs a due timeout: it leaves the pending set and reset() runs.
TapTimeoutFires ==
  /\ \E t \in tapTimeouts :
       /\ t.due <= tapNow
       /\ tapsRef' = <<>>
       /\ tapCount' = 0
       /\ tapBpm' = Null
       /\ tapTimeouts' = ClearPendingTimeout(tapTimeouts \ {t}, resetTimeoutRef)
       /\ resetTimeoutRef' = Null
       /\ tempoCalls' = <<>>
  /\ tapEvent' = "timeout"
  /\ UNCHANGED tapNow
  /\ TapFrame

NextTap == TapAdvance \/ Tap \/ TapReset \/ TapTimeoutFires


(***************************************************************************)
(* useMetronome                                                            *)
(***************************************************************************)
MIN_BPM == 20
MAX_BPM == 300

\* Math.max(MIN_BPM, Math.min(MAX_BPM, value))
clampBpm(value) == Max2(MIN_BPM, Min2(MAX_BPM, value))

\* The accent beats of a subdivision: the starting offset of each group.
RECURSIVE AccentsFrom(_, _)
AccentsFrom(subdivision, position) ==
  IF subdivision = <<>> THEN <<>>
  ELSE <<position>> \o AccentsFrom(Tail(subdivision), position + Head(subdivision))

getAccentBeats(subdivision) == AccentsFrom(subdivision, 0)

SeqRange(s) == {s[i] : i \in 1..Len(s)}

\* Entries of TIME_SIGNATURES the model draws from: 1/4, 2/4, 3/4.
TimeSignatures ==
  { [beats |-> 1, subdivision |-> <<1>>],
    [beats |-> 2, subdivision |-> <<2>>],
    [beats |-> 3, subdivision |-> <<3>>] }

CountInChoices == {0, 2}
InitialBpmChoices == {100, 295}
SetBpmChoices == {10, 400}

SpeedTrainerOff == [enabled |-> FALSE, loops |-> 0, repeatsPerLoop |-> 1, bpmIncrement |-> 0]
SpeedTrainerChoices ==
  {SpeedTrainerOff} \cup
  [enabled : {TRUE}, loops : {0, 1, 2}, repeatsPerLoop : {1, 2}, bpmIncrement : {10}]

TimerOff == [enabled |-> FALSE, durationSeconds |-> 0]
TimerChoices == {TimerOff} \cup [enabled : {TRUE}, durationSeconds : {0, 2}]

MetroOptions ==
  { [beatsPerMeasure |-> ts.beats, accentBeats |-> getAccentBeats(ts.subdivision),
     bpm |-> b, countIn |-> ci, speedTrainer |-> st, timer |-> tm] :
      ts \in TimeSignatures, b \in InitialBpmChoices, ci \in CountInChoices,
      st \in SpeedTrainerChoices, tm \in TimerChoices }

\* speedTrainerState = null
NoTrainerState == [currentBpm |-> Null, currentLoop |-> Null, currentRepeat |-> Null]

\* The hook after its first render with options o.
MetroConstructed(o) ==
  [ bpm |-> clampBpm(o.bpm),
    currentBeat |-> -1,
    isPlaying |-> FALSE,
    isCountingIn |-> FALSE,
    countInRemaining |-> 0,
    elapsedSeconds |-> 0,
    speedTrainerState |-> NoTrainerState,
    bpmRef |-> clampBpm(o.bpm),
    currentBeatRef |-> 0,
    speedTrainerRef |-> [currentBpm |-> clampBpm(o.bpm), currentLoop |-> 1, currentRepeat |-> 1],
    audioContextRef |-> FALSE,   \* whether audioContextRef.current holds a context
    intervalRef |-> Null,
    timerIntervalRef |-> Null,
    intervals |-> {},            \* live window.setInterval registrations
    stackOverflow |-> FALSE,     \* a callback ended in RangeError (call stack exceeded)
    clicks |-> <<>>,             \* observer: clicks the last operation produced
    runLog |-> <<>>,             \* observer: clicks since the last play()
    completes |-> 0,             \* observer: onComplete calls since the last play()
    bpmCalls |-> <<>> ]          \* observer: onBpmChange calls of the last operation

FreshIntervalId(intervals) ==
  CHOOSE i \in 1..(Cardinality(intervals) + 1) :
    /\ i \notin {t.id : t \in intervals}
    /\ \A j \in 1..(i - 1) : j \in {t.id : t \in intervals}

\* window.setInterval(callback, period): kind names the callback, bpm its period
\* (60000 / bpm ms; the 1 Hz timer has bpm 60), remaining the count-in closure's counter.
SetIntervalIn(intervals, kind, bpm, remaining) ==
  intervals \cup {[id |-> FreshIntervalId(intervals), kind |-> kind, bpm |-> bpm,
                   remaining |-> remaining]}

\* createClickSound(audioContext, clickType), as the observers see it.
Click(m, type, value) ==
  LET c == [type |-> type, value |-> value]
  IN [m EXCEPT !.clicks = Append(@, c),
               !.runLog = IF Len(@) < MaxRunLog THEN Append(@, c) ELSE @]

\* stopInterval()
stopInterval(m) ==
  IF m.intervalRef # Null
    THEN [m EXCEPT !.intervals = {t \in @ : t.id # m.intervalRef}, !.intervalRef = Null]
    ELSE m

\* if (timerIntervalRef.current) { clearInterval(...); timerIntervalRef.current = null }
clearTimerInterval(m) ==
  IF m.timerIntervalRef # Null
    THEN [m EXCEPT !.intervals = {t \in @ : t.id # m.timerIntervalRef},
                   !.timerIntervalRef = Null]
    ELSE m

\* Mutant of getClickType: beat 0 is not told apart.
getClickTypeWithoutDownbeat(beat, accentBeats) ==
  IF beat \in SeqRange(accentBeats) THEN "accent" ELSE "normal"

getClickType(beat, accentBeats) ==
  IF beat = 0 THEN "downbeat"
  ELSE IF beat \in SeqRange(accentBeats) THEN "accent"
  ELSE "normal"

\* The completion branch of tick (speed trainer loops exceeded).
tickComplete(m) ==
  [clearTimerInterval(stopInterval(m)) EXCEPT
     !.isPlaying = FALSE,
     !.currentBeat = -1,
     !.currentBeatRef = 0,
     !.elapsedSeconds = 0,
     !.speedTrainerState = NoTrainerState,
     !.completes = Min2(@ + 1, 2)]

\* Mutant of bumpedBpm: the new tempo is not clamped.
bumpedBpmUnclamped(st, o) == st.currentBpm + o.speedTrainer.bpmIncrement

\* st.currentBpm = clampBpm(st.currentBpm + speedTrainer.bpmIncrement)
bumpedBpm(st, o) == clampBpm(st.currentBpm + o.speedTrainer.bpmIncrement)

\* The beat index stored for the next tick.
nextBeat(beat, o) == (beat + 1) % o.beatsPerMeasure

\* Mutant of loopsExceeded: the run completes one loop early.
loopsExceededEarly(st, o) ==
  o.speedTrainer.loops > 0 /\ st.currentLoop >= o.speedTrainer.loops

\* speedTrainer.loops > 0 && st.currentLoop > speedTrainer.loops
loopsExceeded(st, o) ==
  o.speedTrainer.loops > 0 /\ st.currentLoop > o.speedTrainer.loops

RECURSIVE tick(_, _, _)
RECURSIVE startInterval(_, _, _, _)

\* startInterval(intervalBpm, audioContext): depth counts the startInterval calls
\* already on the stack.
startInterval(m, intervalBpm, o, depth) ==
  IF depth >= MaxNesting THEN [m EXCEPT !.stackOverflow = TRUE]
  ELSE LET m0 == stopInterval(m)
           ids == SetIntervalIn(m0.intervals, "beat", intervalBpm, 0)
           id == FreshIntervalId(m0.intervals)
           m1 == [m0 EXCEPT !.intervals = ids, !.intervalRef = id]
       IN tick(m1, o, depth + 1)

\* The interval callback tick of startInterval.
tick(m, o, depth) ==
  LET beat == m.currentBeatRef
      m1 == [Click(m, getClickType(beat, o.accentBeats), beat) EXCEPT
               !.currentBeat = beat,
               !.currentBeatRef = nextBeat(beat, o)]
  IN IF o.speedTrainer.enabled /\ m1.currentBeatRef = 0
       THEN LET st1 == [m1.speedTrainerRef EXCEPT !.currentRepeat = @ + 1]
            IN IF st1.currentRepeat > o.speedTrainer.repeatsPerLoop
                 THEN LET st2 == [st1 EXCEPT !.currentRepeat = 1, !.currentLoop = @ + 1]
                      IN IF loopsExceeded(st2, o)
                           THEN tickComplete([m1 EXCEPT !.speedTrainerRef = st2])
                           ELSE LET st3 == [st2 EXCEPT !.currentBpm = bumpedBpm(st2, o)]
                                    m2 == startInterval([m1 EXCEPT !.speedTrainerRef = st3],
                                                        st3.currentBpm, o, depth)
                                IN IF m2.stackOverflow THEN m2
                                   ELSE [m2 EXCEPT !.speedTrainerState = m2.speedTrainerRef]
                 ELSE [m1 EXCEPT !.speedTrainerRef = st1, !.speedTrainerState = st1]
       ELSE m1

\* Mutant of stop: the 1 Hz interval is left running.
stopWithoutTimer(m) ==
  [stopInterval(m) EXCEPT
     !.isPlaying = FALSE,
     !.isCountingIn = FALSE,
     !.countInRemaining = 0,
     !.currentBeat = -1,
     !.currentBeatRef = 0,
     !.elapsedSeconds = 0,
     !.speedTrainerState = NoTrainerState]

\* stop()
stop(m) ==
  [clearTimerInterval(stopInterval(m)) EXCEPT
     !.isPlaying = FALSE,
     !.isCountingIn = FALSE,
     !.countInRemaining = 0,
     !.currentBeat = -1,
     !.currentBeatRef = 0,
     !.elapsedSeconds = 0,
     !.speedTrainerState = NoTrainerState]

\* The timer branch of startMetronome: the 1 Hz interval is installed over whatever
\* timerIntervalRef held.
installTimer(m, o) ==
  IF o.timer.enabled /\ o.timer.durationSeconds > 0
    THEN [m EXCEPT !.intervals = SetIntervalIn(@, "seconds", 60, 0),
                   !.timerIntervalRef = FreshIntervalId(m.intervals)]
    ELSE m

\* startMetronome(audioContext)
startMetronome(m, o) ==
  LET startBpm == m.bpmRef
      fresh == [currentBpm |-> startBpm, currentLoop |-> 1, currentRepeat |-> 1]
      m1 == [m EXCEPT !.currentBeatRef = 0]
      m2 == IF o.speedTrainer.enabled
              THEN [m1 EXCEPT !.speedTrainerRef = fresh, !.speedTrainerState = fresh]
              ELSE m1
      m3 == [m2 EXCEPT !.isCountingIn = FALSE, !.countInRemaining = 0]
      m4 == startInterval(m3, startBpm, o, 0)
  IN IF m4.stackOverflow THEN m4 ELSE installTimer(m4, o)

\* The interval installed for the count-in: play() assigns it to intervalRef without
\* clearing what intervalRef held.
installCountIn(m, remaining) ==
  [m EXCEPT !.intervals = SetIntervalIn(@, "countIn", m.bpmRef, remaining),
            !.intervalRef = FreshIntervalId(m.intervals)]

\* play()
play(m, o) ==
  LET m1 == [m EXCEPT !.audioContextRef = TRUE, !.isPlaying = TRUE,
                      !.runLog = <<>>, !.completes = 0]
  IN IF o.countIn > 0
       THEN LET m2 == [m1 EXCEPT !.isCountingIn = TRUE, !.countInRemaining = o.countIn]
                m3 == Click(m2, "countIn", o.countIn)
            IN installCountIn(m3, o.countIn - 1)
       ELSE startMetronome(m1, o)

\* Whether countInTick finds the count-in complete.
countInDoneEarly(remaining) == remaining <= 1

\* if (remaining <= 0)
countInDone(remaining) == remaining <= 0

\* countInTick, run by the interval t
countInTick(m, t, o) ==
  IF countInDone(t.remaining)
    THEN startMetronome(stopInterval(m), o)
    ELSE [Click(m, "countIn", t.remaining) EXCEPT
            !.countInRemaining = t.remaining,
            !.intervals = (@ \ {t}) \cup {[t EXCEPT !.remaining = @ - 1]}]

\* The 1 Hz interval's callback: setElapsedSeconds(prev => ...)
secondsTick(m, o) ==
  LET next == m.elapsedSeconds + 1
  IN IF next >= o.timer.durationSeconds
       THEN [stop(m) EXCEPT !.completes = Min2(@ + 1, 2), !.elapsedSeconds = 0]
       ELSE [m EXCEPT !.elapsedSeconds = next]

\* Mutant of setBpmRestarts: the count-in is not excluded.
setBpmRestartsInCountIn(m, o) ==
  m.isPlaying /\ ~o.speedTrainer.enabled /\ m.audioContextRef

\* Whether setBpm restarts the beat interval.
setBpmRestarts(m, o) ==
  m.isPlaying /\ ~m.isCountingIn /\ ~o.speedTrainer.enabled /\ m.audioContextRef

\* setBpm(newBpm)
setBpm(m, newBpm, o) ==
  LET clamped == clampBpm(newBpm)
      m1 == [m EXCEPT !.bpm = clamped, !.bpmRef = clamped, !.bpmCalls = <<clamped>>]
  IN IF setBpmRestarts(m, o) THEN startInterval(m1, clamped, o, 0) ELSE m1

\* Every operation starts with the per-operation observers empty.
Fresh(m) == [m EXCEPT !.clicks = <<>>, !.bpmCalls = <<>>]

InitMetro ==
  /\ metroOpts \in MetroOptions
  /\ metro = MetroConstructed(metroOpts)
  /\ metroEvent = [op |-> "init", arg |-> 0]

\* The model follows an operation only while the browser holds at most
\* MaxLiveIntervals live intervals.
WithinBounds(m) == Cardinality(m.intervals) <= MaxLiveIntervals

\* toggle(): pause() when isPlaying, play() otherwise
MToggle ==
  /\ ~metro.stackOverflow
  /\ metro' = IF metro.isPlaying THEN stop(Fresh(metro)) ELSE play(Fresh(metro), metroOpts)
  /\ WithinBounds(metro')
  /\ metroEvent' = [op |-> IF metro.isPlaying THEN "pause" ELSE "play", arg |-> 0]
  /\ MetroFrame

\* play() called while the engine is already playing (the page calls toggle() only)
MPlayAgain ==
  /\ ~metro.stackOverflow
  /\ metro.isPlaying
  /\ metro' = play(Fresh(metro), metroOpts)
  /\ WithinBounds(metro')
  /\ metroEvent' = [op |-> "play", arg |-> 1]
  /\ MetroFrame

\* setBpm(x)
MSetBpm ==
  /\ ~metro.stackOverflow
  /\ \E x \in SetBpmChoices :
       /\ metro' = setBpm(Fresh(metro), x, metroOpts)
       /\ WithinBounds(metro')
       /\ metroEvent' = [op |-> "setBpm", arg |-> x]
  /\ MetroFrame

\* A live count-in interval fires.
MCountInFires ==
  /\ ~metro.stackOverflow
  /\ \E t \in metro.intervals :
       /\ t.kind = "countIn"
       /\ metro' = countInTick(Fresh(metro), t, metroOpts)
       /\ WithinBounds(metro')
  /\ metroEvent' = [op |-> "countInTick", arg |-> 0]
  /\ MetroFrame

\* A live beat interval fires.
MBeatFires ==
  /\ ~metro.stackOverflow
  /\ metro.speedTrainerRef.currentLoop <= MaxLoopCount
  /\ \E t \in metro.intervals :
       /\ t.kind = "beat"
       /\ metro' = tick(Fresh(metro), metroOpts, 0)
       /\ WithinBounds(metro')
  /\ metroEvent' = [op |-> "tick", arg |-> 0]
  /\ MetroFrame

\* A live 1 Hz interval fires.
MSecondsFires ==
  /\ ~metro.stackOverflow
  /\ \E t \in metro.intervals :
       /\ t.kind = "seconds"
       /\ metro' = secondsTick(Fresh(metro), metroOpts)
  /\ metroEvent' = [op |-> "secondsTick", arg |-> 0]
  /\ MetroFrame

\* The hook as the metronome page drives it: toggle() and setBpm().
NextMetro == MToggle \/ MSetBpm \/ MCountInFires \/ MBeatFires \/ MSecondsFires

\* The hook driven through its returned play() and toggle(), at 2/4 and 100 bpm with the
\* speed trainer off.
ApiOptions ==
  {o \in MetroOptions :
     /\ o.beatsPerMeasure = 2 /\ o.bpm = 100 /\ ~o.speedTrainer.enabled
     /\ o.timer.enabled => o.timer.durationSeconds > 0}

InitMetroApi ==
  /\ metroOpts \in ApiOptions
  /\ metro = MetroConstructed(metroOpts)
  /\ metroEvent = [op |-> "init", arg |-> 0]

NextMetroApi == MToggle \/ MPlayAgain \/ MCountInFires \/ MBeatFires \/ MSecondsFires



(***************************************************************************)
(* useDrumEngine                                                           *)
(* Times are in milliseconds.  nextNoteTime is kept relative to            *)
(* audioContext.currentTime, as the field "ahead" of the playback state.   *)
(***************************************************************************)
LOOKAHEAD_MS == 120           \* LOOKAHEAD_SECONDS = 0.12
MIN_NOTE_AHEAD_MS == 40       \* MIN_NOTE_AHEAD_SECONDS = 0.04
SCHEDULER_INTERVAL_MS == 25
MIN_START_AHEAD_MS == 1       \* audioContext.currentTime + 0.001 in scheduleStep

\* The values of the error state.
NoError == [kind |-> "null", path |-> ""]
GuidanceError == [kind |-> "Add at least one sample track before pressing play.", path |-> ""]
\* The ways a sample request can settle.
FetchOutcomes == {"ok", "notOk", "decodeError"}

\* The message of the error a failed sample request throws: `Failed to load sample: ${samplePath}`
\* for a response that is not ok, the browser's message for a rejected decodeAudioData.
FailureMessage(outcome, path) ==
  IF outcome = "notOk" THEN [kind |-> "Failed to load sample: ", path |-> path]
  ELSE [kind |-> "decodeAudioData rejected", path |-> ""]

\* Tracks and sections of the explored projects.
KickTrack == [id |-> "kick-1", samplePath |-> "kick.wav", mute |-> FALSE, solo |-> FALSE, nudgeMs |-> 0]
SnareTrack == [id |-> "snare-1", samplePath |-> "snare.wav", mute |-> FALSE, solo |-> FALSE, nudgeMs |-> 10]

FourSteps ==
  [beatsPerBar |-> 1, bars |-> 1, stepsPerBeat |-> 4, repeats |-> 1, swingPct |-> 0,
   pattern |-> ("kick-1" :> {0, 2}) @@ ("snare-1" :> {1})]
TwoSteps ==
  [beatsPerBar |-> 1, bars |-> 1, stepsPerBeat |-> 2, repeats |-> 2, swingPct |-> 50,
   pattern |-> ("kick-1" :> {0, 1})]

\* A project without tracks, a project with two tracks and two sections, and that
\* project after the page's removeSection of its second section.
EmptyProject == [bpm |-> 120, tracks |-> <<>>, sections |-> <<TwoSteps>>]
KitProject == [bpm |-> 300, tracks |-> <<KickTrack, SnareTrack>>, sections |-> <<FourSteps, TwoSteps>>]
KitFirstSection == [KitProject EXCEPT !.sections = <<FourSteps>>]
DrumProjects == {EmptyProject, KitProject, KitFirstSection}

\* Projects whose tracks are soloed, muted, nudged to the limits of the nudge slider,
\* without a pattern entry, or added while the engine plays (their sample not requested).
KickSolo == [id |-> "kick-1", samplePath |-> "kick.wav", mute |-> FALSE, solo |-> TRUE, nudgeMs |-> -80]
KickMuted == [id |-> "kick-1", samplePath |-> "kick.wav", mute |-> TRUE, solo |-> FALSE, nudgeMs |-> -80]
SnareLate == [id |-> "snare-1", samplePath |-> "kick.wav", mute |-> FALSE, solo |-> FALSE, nudgeMs |-> 80]
HatSoloMuted == [id |-> "hat-1", samplePath |-> "hat.wav", mute |-> TRUE, solo |-> TRUE, nudgeMs |-> 0]
HatEarly == [id |-> "hat-1", samplePath |-> "hat.wav", mute |-> FALSE, solo |-> FALSE, nudgeMs |-> -80]
TomUnpatterned == [id |-> "tom-1", samplePath |-> "kick.wav", mute |-> FALSE, solo |-> FALSE, nudgeMs |-> 0]

SwungSteps ==
  [beatsPerBar |-> 1, bars |-> 1, stepsPerBeat |-> 2, repeats |-> 1, swingPct |-> 75,
   pattern |-> ("kick-1" :> {0, 1}) @@ ("snare-1" :> {0}) @@ ("hat-1" :> {0, 1})]

SoloMix == [bpm |-> 120, tracks |-> <<KickSolo, SnareLate, HatSoloMuted>>, sections |-> <<SwungSteps>>]
MuteMix == [bpm |-> 120, tracks |-> <<KickMuted, SnareLate, TomUnpatterned>>, sections |-> <<SwungSteps>>]
HatMix == [bpm |-> 300, tracks |-> <<SnareLate, HatEarly>>, sections |-> <<SwungSteps>>]
MixProjects == {SoloMix, MuteMix, HatMix}

\* The projects an edit of the project can lead to.
EditsOf(project) == IF project \in MixProjects THEN MixProjects ELSE DrumProjects

\* How late after the previous event an interval callback runs.
TickDelays == {SCHEDULER_INTERVAL_MS, 150}

getStepCount(section) == section.beatsPerBar * section.bars * section.stepsPerBeat

isStepActive(track, section, stepIndex) ==
  track.id \in DOMAIN section.pattern /\ stepIndex \in section.pattern[track.id]

\* 60 / bpm / stepsPerBeat seconds
stepDuration(project, section) == (MS_PER_MINUTE \div project.bpm) \div section.stepsPerBeat

\* Mutant of getSwingOffsetSeconds: the offset is given to every step.
getSwingOffsetOfEveryStep(section, stepIndex, stepDurationSeconds) ==
  IF section.swingPct <= 0 THEN 0
  ELSE stepDurationSeconds * section.swingPct

\* getSwingOffsetSeconds(section, stepIndex, stepDurationSeconds), with the swing in
\* hundredths: the offset in two-hundredths of the unit of stepDurationSeconds.
getSwingOffsetSeconds(section, stepIndex, stepDurationSeconds) ==
  IF section.swingPct <= 0 THEN 0
  ELSE IF stepIndex % 2 # 1 THEN 0
  ELSE stepDurationSeconds * section.swingPct

\* The swing offset in whole ms.
getSwingOffset(section, stepIndex, stepDurationMs) ==
  getSwingOffsetSeconds(section, stepIndex, stepDurationMs) \div 200

\* [...new Set(tracks.map(track => track.samplePath))]
uniquePaths(project) == {project.tracks[i].samplePath : i \in DOMAIN project.tracks}

\* The hook after construction.
DrumConstructed ==
  [cursor |-> <<>>, error |-> NoError, isBuffering |-> FALSE, isPlaying |-> FALSE,
   intervalRef |-> Null, audioContextRef |-> FALSE, audioState |-> "none",
   playbackStateRef |-> <<>>, sampleBufferCacheRef |-> {},
   intervals |-> {},       \* ids of the live window.setInterval registrations
   plays |-> EmptyBag,     \* the play() calls that are awaiting, as a bag
   orphans |-> {},         \* sample requests still in flight whose play() call has failed
   scheduled |-> <<>>,     \* observer: the steps scheduled by the last operation
   tickThrew |-> FALSE,    \* observer: the scheduler tick of the last operation threw
   started |-> FALSE,      \* observer: a play() call ran to its end in the last operation
   stopped |-> FALSE,      \* observer: stop() has run and play() has not been called since
   failures |-> 0]         \* observer: the play() calls that have failed on a sample request

\* What the observers show at the start of an operation.
DrumFresh(m) == [m EXCEPT !.scheduled = <<>>, !.tickThrew = FALSE, !.started = FALSE]

\* stop()
drumStop(m) ==
  [m EXCEPT !.intervals = IF m.intervalRef # Null THEN @ \ {m.intervalRef} ELSE @,
            !.intervalRef = Null,
            !.playbackStateRef = <<>>,
            !.isPlaying = FALSE,
            !.cursor = <<>>,
            !.stopped = TRUE]

\* Mutant of shouldPlayTrack: with a solo present a muted solo track plays.
shouldPlayTrackIgnoringMute(track, hasSolo) ==
  IF hasSolo THEN track.solo ELSE ~track.mute

shouldPlayTrack(track, hasSolo) ==
  IF hasSolo THEN track.solo /\ ~track.mute ELSE ~track.mute

\* Mutant of startedSources: the nudge of the track is left out.
startedSourcesWithoutNudge(m, project, section, stepIndex, rawAhead) ==
  LET hasSolo == \E i \in DOMAIN project.tracks : project.tracks[i].solo
      playing == {i \in DOMAIN project.tracks :
                    /\ shouldPlayTrack(project.tracks[i], hasSolo)
                    /\ isStepActive(project.tracks[i], section, stepIndex)
                    /\ project.tracks[i].samplePath \in m.sampleBufferCacheRef}
  IN {[track |-> project.tracks[i].id,
       at |-> Max2(MIN_START_AHEAD_MS, rawAhead)] : i \in playing}

\* Mutant of startedSources: source.start(rawTime + nudge) without the Math.max.
startedSourcesUnclamped(m, project, section, stepIndex, rawAhead) ==
  LET hasSolo == \E i \in DOMAIN project.tracks : project.tracks[i].solo
      playing == {i \in DOMAIN project.tracks :
                    /\ shouldPlayTrack(project.tracks[i], hasSolo)
                    /\ isStepActive(project.tracks[i], section, stepIndex)
                    /\ project.tracks[i].samplePath \in m.sampleBufferCacheRef}
  IN {[track |-> project.tracks[i].id,
       at |-> rawAhead + project.tracks[i].nudgeMs] : i \in playing}

\* The sources scheduleStep starts: one for each audible track that is active in the step
\* and has a cached buffer, at max(currentTime + 0.001, rawTime + nudgeMs / 1000).
startedSources(m, project, section, stepIndex, rawAhead) ==
  LET hasSolo == \E i \in DOMAIN project.tracks : project.tracks[i].solo
      playing == {i \in DOMAIN project.tracks :
                    /\ shouldPlayTrack(project.tracks[i], hasSolo)
                    /\ isStepActive(project.tracks[i], section, stepIndex)
                    /\ project.tracks[i].samplePath \in m.sampleBufferCacheRef}
  IN {[track |-> project.tracks[i].id,
       at |-> Max2(MIN_START_AHEAD_MS, rawAhead + project.tracks[i].nudgeMs)] : i \in playing}

\* scheduleStep(audioContext, state)
scheduleStep(m, project, state) ==
  LET section == project.sections[state.sectionIndex + 1]
      stepDurationMs == stepDuration(project, section)
      rawAhead == state.ahead + getSwingOffset(section, state.stepIndex, stepDurationMs)
  IN [m EXCEPT
        !.scheduled = Append(@, [loop |-> state.loop, sectionIndex |-> state.sectionIndex,
                                 repeatIndex |-> state.repeatIndex,
                                 stepIndex |-> state.stepIndex, ahead |-> state.ahead,
                                 scheduledWith |-> <<project>>, advancedWith |-> <<>>,
                                 starts |-> startedSources(m, project, section,
                                                           state.stepIndex, rawAhead)]),
        !.cursor = <<[loop |-> state.loop, sectionIndex |-> state.sectionIndex,
                      stepIndex |-> state.stepIndex, totalSteps |-> getStepCount(section)]>>]

\* Mutant of advancePlaybackState: the loop count stays when the section changes.
advancePlaybackStateSameLoop(project, state) ==
  LET section == project.sections[state.sectionIndex + 1]
      stepCount == getStepCount(section)
      s1 == [state EXCEPT !.stepIndex = @ + 1]
      s2 == IF s1.stepIndex >= stepCount
              THEN LET r == [s1 EXCEPT !.stepIndex = 0, !.repeatIndex = @ + 1]
                   IN IF r.repeatIndex >= section.repeats
                        THEN [r EXCEPT !.repeatIndex = 0,
                                       !.sectionIndex = (@ + 1) % Len(project.sections)]
                        ELSE r
              ELSE s1
  IN [s2 EXCEPT !.ahead = @ + stepDuration(project, section)]

\* advancePlaybackState(state)
advancePlaybackState(project, state) ==
  LET section == project.sections[state.sectionIndex + 1]
      stepCount == getStepCount(section)
      s1 == [state EXCEPT !.stepIndex = @ + 1]
      s2 == IF s1.stepIndex >= stepCount
              THEN LET r == [s1 EXCEPT !.stepIndex = 0, !.repeatIndex = @ + 1]
                   IN IF r.repeatIndex >= section.repeats
                        THEN [r EXCEPT !.repeatIndex = 0,
                                       !.sectionIndex = (@ + 1) % Len(project.sections),
                                       !.loop = @ + 1]
                        ELSE r
              ELSE s1
  IN [s2 EXCEPT !.ahead = @ + stepDuration(project, section)]

RECURSIVE schedulerLoop(_, _)
\* Mutant of schedulerLoop: an edit of the project takes effect between the scheduling of
\* a step and its advance.
schedulerLoopEditedBetween(m, project) ==
  LET state == m.playbackStateRef[1]
      edited == CHOOSE p \in EditsOf(project) :
                  p # project /\ Len(p.sections) >= Len(project.sections)
  IN IF state.ahead < LOOKAHEAD_MS
       THEN schedulerLoop([scheduleStep(m, project, state) EXCEPT
                             !.playbackStateRef = <<advancePlaybackState(edited, state)>>,
                             !.scheduled[Len(m.scheduled) + 1].advancedWith = <<edited>>],
                          project)
       ELSE m

\* The while loop of schedulerTick.  scheduledWith and advancedWith of a scheduled step
\* observe the values of projectRef.current that scheduleStep and advancePlaybackState
\* read for it.
schedulerLoop(m, project) ==
  LET state == m.playbackStateRef[1]
  IN IF state.ahead < LOOKAHEAD_MS
       THEN schedulerLoop([scheduleStep(m, project, state) EXCEPT
                             !.playbackStateRef = <<advancePlaybackState(project, state)>>,
                             !.scheduled[Len(m.scheduled) + 1].advancedWith = <<project>>],
                          project)
       ELSE m

\* schedulerTick(): reading a field of sections[sectionIndex] throws when no such section
\* exists.
schedulerTick(m, project) ==
  IF ~m.audioContextRef \/ m.playbackStateRef = <<>> THEN m
  ELSE IF m.playbackStateRef[1].ahead >= LOOKAHEAD_MS THEN m
  ELSE IF m.playbackStateRef[1].sectionIndex >= Len(project.sections)
    THEN [m EXCEPT !.tickThrew = TRUE]
  ELSE schedulerLoop(m, project)

\* The id window.setInterval returns.
drumFreshInterval(ids) == CHOOSE i \in 1..(Cardinality(ids) + 1) : i \notin ids

\* Mutant of startPlayback: the interval is installed without the immediate schedulerTick().
startPlaybackWithoutTick(m, project) ==
  LET fresh == [loop |-> 1, ahead |-> MIN_NOTE_AHEAD_MS, repeatIndex |-> 0,
                sectionIndex |-> 0, stepIndex |-> 0]
      id == drumFreshInterval(m.intervals)
  IN [m EXCEPT !.playbackStateRef = <<fresh>>, !.intervals = @ \cup {id},
               !.intervalRef = id, !.isPlaying = TRUE, !.started = TRUE]

\* play(), from the creation of the playback state on (lines 264-275): the interval is
\* assigned to intervalRef whatever intervalRef held.
startPlayback(m, project) ==
  LET fresh == [loop |-> 1, ahead |-> MIN_NOTE_AHEAD_MS, repeatIndex |-> 0,
                sectionIndex |-> 0, stepIndex |-> 0]
      m1 == schedulerTick([m EXCEPT !.playbackStateRef = <<fresh>>], project)
      id == drumFreshInterval(m1.intervals)
  IN [m1 EXCEPT !.intervals = @ \cup {id}, !.intervalRef = id, !.isPlaying = TRUE,
                !.started = TRUE]

\* Another play() call has set the error while these calls were awaiting.
MarkErrorSet(plays) ==
  LET unmarked(call) == [call EXCEPT !.errorSetSince = FALSE]
      marked == {[call EXCEPT !.errorSetSince = TRUE] : call \in BagToSet(plays)}
  IN [call \in marked |-> CopiesIn(call, plays) + CopiesIn(unmarked(call), plays)]

\* Mutant of preloadBuffers: every path of the project is requested, cached or not.
preloadBuffersAgain(m, project, call) ==
  IF uniquePaths(project) = {} THEN startPlayback(m, project)
  ELSE [m EXCEPT !.isBuffering = TRUE,
                 !.plays = @ (+) SetToBag({[call EXCEPT !.pc = "fetch",
                                                        !.pending = uniquePaths(project)]})]

\* play() from preloadBuffers on, for the call `call`: with nothing missing from the cache
\* the call runs to its end; otherwise it requests the missing paths and awaits them.
preloadBuffers(m, project, call) ==
  LET missingPaths == uniquePaths(project) \ m.sampleBufferCacheRef
  IN IF missingPaths = {} THEN startPlayback(m, project)
     ELSE [m EXCEPT !.isBuffering = TRUE,
                    !.plays = @ (+) SetToBag({[call EXCEPT !.pc = "fetch",
                                                           !.pending = missingPaths]})]

\* Mutant of noTracks: play() goes on without tracks.
noTracksIgnored(project) == FALSE

\* currentProject.tracks.length === 0
noTracks(project) == Len(project.tracks) = 0

\* play(), up to its first await that does not settle at once.  contextState is the
\* state the browser gives a newly created AudioContext.
playBegin(m, project, contextState) ==
  IF noTracks(project)
    THEN [m EXCEPT !.error = GuidanceError, !.plays = MarkErrorSet(@), !.stopped = FALSE]
  ELSE LET call == [pc |-> "resume", pending |-> {}, errorSetSince |-> FALSE]
           m1 == [m EXCEPT !.error = NoError,
                           !.stopped = FALSE,
                           !.audioContextRef = TRUE,
                           !.audioState = IF m.audioContextRef THEN @ ELSE contextState]
       IN IF m1.audioState = "suspended"
            THEN [m1 EXCEPT !.plays = @ (+) SetToBag({call})]
            ELSE preloadBuffers(m1, project, call)

\* audioContext.resume() settles for the awaiting call.
resumed(m, project, call) ==
  preloadBuffers([m EXCEPT !.audioState = "running", !.plays = @ (-) SetToBag({call})],
                 project, call)

\* Mutant of playFailed: the catch block does not call stop().
playFailedWithoutStop(m, message) ==
  [m EXCEPT !.isBuffering = FALSE, !.error = message]

\* The catch block of play() with the finally block of preloadBuffers before it.
playFailed(m, message) ==
  drumStop([m EXCEPT !.isBuffering = FALSE, !.error = message])

\* A sample request of the awaiting call settles.
fetchSettles(m, project, call, path, outcome) ==
  LET rest == call.pending \ {path}
      others == m.plays (-) SetToBag({call})
  IN IF outcome = "ok"
       THEN LET m1 == [m EXCEPT !.sampleBufferCacheRef = @ \cup {path}]
            IN IF rest = {}
                 THEN startPlayback([m1 EXCEPT !.isBuffering = FALSE, !.plays = others],
                                    project)
                 ELSE [m1 EXCEPT !.plays = others (+) SetToBag({[call EXCEPT !.pending = rest]})]
       ELSE playFailed([m EXCEPT !.plays = MarkErrorSet(others),
                                 !.orphans = @ \cup rest,
                                 !.failures = @ + 1],
                       FailureMessage(outcome, path))

\* A sample request settles after Promise.all has rejected.
orphanSettles(m, path, outcome) ==
  [m EXCEPT !.orphans = @ \ {path},
            !.sampleBufferCacheRef = IF outcome = "ok" THEN @ \cup {path} ELSE @]


\* errorSetSince: whether another play() call had set the error while the call that went on
\* in this operation was awaiting.
NoDrumEvent == [op |-> "init", path |-> "", outcome |-> "", delay |-> 0, errorSetSince |-> FALSE]
DrumEventOf(op) == [NoDrumEvent EXCEPT !.op = op]

DrumWithinBounds(m) ==
  /\ BagCardinality(m.plays) <= MaxPendingPlays
  /\ Cardinality(m.intervals) <= MaxDrumIntervals

InitDrum ==
  /\ drumProject \in DrumProjects
  /\ drum = DrumConstructed
  /\ drumEvent = NoDrumEvent

\* toggle(): stop() while playing, otherwise play()
DrumToggle ==
  \E contextState \in {"running", "suspended"} :
    /\ drum' = IF drum.isPlaying THEN drumStop(DrumFresh(drum))
               ELSE playBegin(DrumFresh(drum), drumProject, contextState)
    /\ DrumWithinBounds(drum')
    /\ drumEvent' = DrumEventOf(IF drum.isPlaying THEN "stop" ELSE "play")
    /\ UNCHANGED drumProject
    /\ DrumFrame

\* audioContext.resume() settles for one awaiting play() call
DrumResumed ==
  \E call \in BagToSet(drum.plays) :
    /\ call.pc = "resume"
    /\ drum' = resumed(DrumFresh(drum), drumProject, call)
    /\ DrumWithinBounds(drum')
    /\ drumEvent' = [DrumEventOf("resumed") EXCEPT !.errorSetSince = call.errorSetSince]
    /\ UNCHANGED drumProject
    /\ DrumFrame

\* one sample request of an awaiting play() call settles
DrumFetchSettles ==
  \E call \in BagToSet(drum.plays) :
    /\ call.pc = "fetch"
    /\ \E path \in call.pending, outcome \in FetchOutcomes :
         /\ outcome # "ok" => drum.failures < MaxFailures
         /\ drum' = fetchSettles(DrumFresh(drum), drumProject, call, path, outcome)
         /\ drumEvent' = [DrumEventOf("fetchSettles") EXCEPT !.path = path, !.outcome = outcome,
                                                             !.errorSetSince = call.errorSetSince]
    /\ DrumWithinBounds(drum')
    /\ UNCHANGED drumProject
    /\ DrumFrame

\* a sample request left over by a failed play() call settles
DrumOrphanSettles ==
  \E path \in drum.orphans, outcome \in FetchOutcomes :
    /\ drum' = orphanSettles(DrumFresh(drum), path, outcome)
    /\ drumEvent' = [DrumEventOf("orphanSettles") EXCEPT !.path = path, !.outcome = outcome]
    /\ UNCHANGED drumProject
    /\ DrumFrame

\* The audio clock advances by delay.
clockAdvanced(m, delay) ==
  IF m.playbackStateRef = <<>> THEN m
  ELSE [m EXCEPT !.playbackStateRef[1].ahead = @ - delay]

\* a live interval runs schedulerTick, delay ms after the previous event
DrumIntervalFires ==
  \E id \in drum.intervals, delay \in TickDelays :
    /\ drum.playbackStateRef # <<>> =>
         /\ drum.playbackStateRef[1].loop <= MaxDrumLoop
         /\ drum.playbackStateRef[1].ahead - delay >= -MaxOverdueMs
    /\ drum' = schedulerTick(clockAdvanced(DrumFresh(drum), delay), drumProject)
    /\ drumEvent' = [DrumEventOf("schedulerTick") EXCEPT !.delay = delay]
    /\ UNCHANGED drumProject
    /\ DrumFrame

\* the page renders the hook with an edited project
DrumProjectChange ==
  \E project \in EditsOf(drumProject) \ {drumProject} :
    /\ drumProject' = project
    /\ drum' = DrumFresh(drum)
    /\ drumEvent' = DrumEventOf("project")
    /\ DrumFrame

InitDrumMix ==
  /\ drumProject \in MixProjects
  /\ drum = DrumConstructed
  /\ drumEvent = NoDrumEvent

NextDrum ==
  \/ DrumToggle \/ DrumResumed \/ DrumFetchSettles \/ DrumOrphanSettles
  \/ DrumIntervalFires \/ DrumProjectChange

(***************************************************************************)
(* useTuner: the pitch detector                                            *)
(* Samples are integers in units of 0.001, the silence threshold of the    *)
(* detector; sums of products of samples are then exact.  A frequency is   *)
(* an integer number of millihertz, 0 for "no pitch".                      *)
(***************************************************************************)
MIN_FREQ == 55
MAX_FREQ == 1760

\* The buffers handed to the detector: square waves and pulse trains.
WaveShapes == {"square", "pulse"}
WaveAmplitudes == {0, 1, 2, 3, 6}
WavePeriods == {1, 3, 4, 5, 8, 17}
SampleRates == {1870, 44100}

Wave(shape, amplitude, period) ==
  [i \in 1..TunerBufferLength |->
     LET j == i - 1
     IN IF shape = "square"
          THEN (IF (j % period) * 2 < period THEN amplitude ELSE 0 - amplitude)
          ELSE (IF j % period = 0 THEN amplitude ELSE 0)]

Buffers ==
  {Wave(shape, a, p) : shape \in WaveShapes, a \in WaveAmplitudes, p \in WavePeriods}

Ceiling(a, b) == (a + b - 1) \div b

\* for (i = 0; i < n - tau; i++) sum += buffer[i] * buffer[i + tau]
RECURSIVE CorrelationFrom(_, _, _)
CorrelationFrom(buffer, tau, i) ==
  IF i + tau > Len(buffer) THEN 0
  ELSE buffer[i] * buffer[i + tau] + CorrelationFrom(buffer, tau, i + 1)

\* correlations[tau]: the Float32Array is zero where the first loop wrote nothing
Correlation(buffer, tau, minLag, maxLag) ==
  IF tau >= minLag /\ tau <= maxLag THEN CorrelationFrom(buffer, tau, 1) ELSE 0

\* The second loop, from lag tau on, with the best lag found so far.
RECURSIVE BestLagFrom(_, _, _, _, _)
BestLagFrom(buffer, tau, maxLag, bestLag, bestCorr) ==
  IF tau >= maxLag THEN bestLag
  ELSE LET c == CorrelationFrom(buffer, tau, 1)
       IN IF c > bestCorr
            THEN BestLagFrom(buffer, tau + 1, maxLag, tau, c)
            ELSE BestLagFrom(buffer, tau + 1, maxLag, bestLag, bestCorr)

\* buffer.reduce((s, x) => s + x * x, 0)
RECURSIVE SumSquaresFrom(_, _)
SumSquaresFrom(buffer, i) ==
  IF i > Len(buffer) THEN 0 ELSE buffer[i] * buffer[i] + SumSquaresFrom(buffer, i + 1)

\* rms < 0.001, that is sqrt(sum / n) < 1 in sample units
RmsBelowThreshold(buffer) == SumSquaresFrom(buffer, 1) < Len(buffer)

\* numerator / denominator in millihertz, rounded down (both positive)
MilliHz(numerator, denominator) ==
  (numerator \div denominator) * 1000 + ((numerator % denominator) * 1000) \div denominator

\* if (bestLag - 1 < 0 || bestLag + 1 > maxLag || y1 <= 0) return sampleRate / bestLag
EarlyReturn(bestLag, maxLag, y1) == bestLag - 1 < 0 \/ bestLag + 1 > maxLag \/ y1 <= 0

detectPitchAutocorrelation(buffer, sampleRate) ==
  LET n == Len(buffer)
      maxLag == sampleRate \div MIN_FREQ
      minLag == Ceiling(sampleRate, MAX_FREQ)
  IN IF maxLag * 2 >= n \/ minLag < 2 THEN 0
     ELSE
       LET bestLag == BestLagFrom(buffer, minLag + 1, maxLag, minLag,
                                  CorrelationFrom(buffer, minLag, 1))
           y0 == Correlation(buffer, bestLag - 1, minLag, maxLag)
           y1 == Correlation(buffer, bestLag, minLag, maxLag)
           y2 == Correlation(buffer, bestLag + 1, minLag, maxLag)
           curvature == y0 - 2 * y1 + y2
           \* period = bestLag + 0.5 * (y0 - y2) / curvature, as a fraction with a positive
           \* denominator; a zero curvature gives a delta that is not finite, taken as 0
           sign == IF curvature < 0 THEN 0 - 1 ELSE 1
           periodNum == IF curvature = 0 THEN bestLag
                        ELSE sign * (2 * curvature * bestLag + (y0 - y2))
           periodDen == IF curvature = 0 THEN 1 ELSE sign * 2 * curvature
       IN IF EarlyReturn(bestLag, maxLag, y1) THEN MilliHz(sampleRate, bestLag)
          \* a period <= 0 gives a frequency that is negative or infinite: out of range
          ELSE IF periodNum <= 0 THEN 0
          ELSE IF sampleRate * periodDen < MIN_FREQ * periodNum THEN 0
          ELSE IF sampleRate * periodDen > MAX_FREQ * periodNum THEN 0
          ELSE IF RmsBelowThreshold(buffer) THEN 0
          ELSE MilliHz(sampleRate * periodDen, periodNum)

PitchIdle == [buffer |-> <<>>, sampleRate |-> 0, frequency |-> Null]

InitPitch ==
  /\ \E b \in Buffers, sr \in SampleRates :
       pitch = [buffer |-> b, sampleRate |-> sr, frequency |-> Null]

PitchDetect ==
  /\ pitch.frequency = Null
  /\ pitch' = [pitch EXCEPT
                 !.frequency = detectPitchAutocorrelation(pitch.buffer, pitch.sampleRate)]
  /\ PitchFrame

\* A new buffer arrives for the next call.
PitchNextBuffer ==
  /\ pitch.frequency # Null
  /\ \E b \in Buffers :
       pitch' = [pitch EXCEPT !.buffer = b, !.frequency = Null]
  /\ PitchFrame

NextPitch == PitchDetect \/ PitchNextBuffer

(***************************************************************************)
(* useTuner: note arithmetic (src/src/lib/tuner-utils.ts)                  *)
(***************************************************************************)
NOTE_STRINGS == <<"C", "C#", "D", "D#", "E", "F", "F#", "G", "G#", "A", "A#", "B">>
SEMITONE_A4 == 69

\* 2^((2s - 1)/24) * 10^6 for s = 0..12: where Math.round(12 * log2(ratio)) changes
\* from s - 1 to s.
SemitoneBoundaries ==
  <<971532, 1029302, 1090508, 1155353, 1224054, 1296840, 1373954,
    1455653, 1542211, 1633915, 1731073, 1834008, 1943064>>

\* Math.round(12 * (Math.log(frequency / middleA) / Math.LN2)), frequency in millihertz
RECURSIVE RoundedSemitones(_, _)
RoundedSemitones(frequency, middleA) ==
  IF frequency * 1000 < middleA * SemitoneBoundaries[1]
    THEN RoundedSemitones(frequency * 2, middleA) - 12
  ELSE IF frequency * 1000 >= middleA * SemitoneBoundaries[13]
    THEN RoundedSemitones(frequency \div 2, middleA) + 12
  ELSE CHOOSE s \in 0..11 :
         /\ middleA * SemitoneBoundaries[s + 1] <= frequency * 1000
         /\ frequency * 1000 < middleA * SemitoneBoundaries[s + 2]

getNote(frequency, middleA) == RoundedSemitones(frequency, middleA) + SEMITONE_A4

\* The cents field of DetectedNote is display data and is left out.
frequencyToNote(frequency, middleA) ==
  LET value == getNote(frequency, middleA)
  IN [name |-> NOTE_STRINGS[(value % 12) + 1],
      value |-> value,
      octave |-> (value \div 12) - 1,
      frequency |-> frequency]

(***************************************************************************)
(* useTuner: the hook                                                      *)
(***************************************************************************)
MIDDLE_A == 440
TunerSampleRate == 1870

\* What one analysis window can yield: the detector's result on each buffer.
WindowFrequencies == {detectPitchAutocorrelation(b, TunerSampleRate) : b \in Buffers}

NoNote == <<>>
NoTunerError == ""
StartOutcomes == {"noAudioContext", "noMediaDevices", "request"}
MediaOutcomes == {"granted", "denied"}

\* processors: the script processors that are connected and deliver onaudioprocess
\* events, each with what its previous window yielded ("none": no window yet,
\* "unclear": frequency 0, else the note name).
TunerConstructed ==
  [note |-> NoNote,
   error |-> NoTunerError,
   isListening |-> FALSE,
   streamRef |-> Null,
   audioContextRef |-> Null,
   scriptProcessorRef |-> Null,
   lastNoteNameRef |-> "",
   pendingStarts |-> 0,
   processors |-> <<>>]

NoTunerEvent ==
  [op |-> "init", outcome |-> "", processor |-> Null, window |-> "none",
   previous |-> "none", surfaced |-> FALSE]

ProcessorIds == 1..MaxProcessors

\* cleanup(): lastNoteNameRef is left as it is
cleanup(t) ==
  [t EXCEPT !.streamRef = Null,
            !.processors = [p \in DOMAIN t.processors \ {t.scriptProcessorRef} |->
                              t.processors[p]],
            !.scriptProcessorRef = Null,
            !.audioContextRef = Null,
            !.isListening = FALSE,
            !.note = NoNote]

\* start() up to its await
startBegin(t, outcome) ==
  LET cleared == [t EXCEPT !.error = NoTunerError]
  IN CASE outcome = "noAudioContext" ->
            [cleared EXCEPT !.error = "AudioContext not supported in this browser"]
       [] outcome = "noMediaDevices" ->
            [cleared EXCEPT !.error = "Microphone access not available"]
       [] OTHER -> [cleared EXCEPT !.pendingStarts = @ + 1]

\* start() after getUserMedia settled
startSettles(t, outcome, id) ==
  LET settled == [t EXCEPT !.pendingStarts = @ - 1]
  IN IF outcome = "granted"
       THEN [settled EXCEPT !.streamRef = id,
                            !.audioContextRef = id,
                            !.scriptProcessorRef = id,
                            !.processors = [p \in DOMAIN t.processors \cup {id} |->
                                              IF p = id THEN "none" ELSE t.processors[p]],
                            !.isListening = TRUE]
       ELSE cleanup([settled EXCEPT !.error = "Failed to access microphone"])

WindowName(frequency) ==
  IF frequency > 0 THEN frequencyToNote(frequency, MIDDLE_A).name ELSE "unclear"

\* if (lastNoteNameRef.current === detected.name)
Debounced(lastNoteName, detected) == lastNoteName = detected.name

\* scriptProcessor.onaudioprocess on processor p, the detector having returned frequency
onaudioprocess(t, p, frequency) ==
  LET detected == frequencyToNote(frequency, MIDDLE_A)
      seen == [t EXCEPT !.processors[p] = WindowName(frequency)]
  IN IF frequency > 0
       THEN IF Debounced(t.lastNoteNameRef, detected)
              THEN [seen EXCEPT !.note = <<detected>>]
              ELSE [seen EXCEPT !.lastNoteNameRef = detected.name]
       ELSE seen

InitTuner ==
  /\ tuner = TunerConstructed
  /\ tunerEvent = NoTunerEvent

TunerStart ==
  /\ \E outcome \in StartOutcomes :
       /\ outcome = "request" => tuner.pendingStarts < MaxPendingStarts
       /\ tuner' = startBegin(tuner, outcome)
       /\ tunerEvent' = [NoTunerEvent EXCEPT !.op = "start", !.outcome = outcome]
  /\ TunerFrame

TunerMediaSettles ==
  /\ tuner.pendingStarts > 0
  /\ \E outcome \in MediaOutcomes :
       LET id == CHOOSE i \in ProcessorIds \cup {MaxProcessors + 1} :
                   /\ i \notin DOMAIN tuner.processors
                   /\ \A j \in 1..(i - 1) : j \in DOMAIN tuner.processors
       IN
       /\ outcome = "granted" => id \in ProcessorIds
       /\ tuner' = startSettles(tuner, outcome, id)
       /\ tunerEvent' = [NoTunerEvent EXCEPT !.op = "settle", !.outcome = outcome,
                                            !.processor = id]
  /\ TunerFrame

TunerStop ==
  /\ tuner' = cleanup(tuner)
  /\ tunerEvent' = [NoTunerEvent EXCEPT !.op = "stop"]
  /\ TunerFrame

TunerAudioProcess ==
  /\ \E p \in DOMAIN tuner.processors, frequency \in WindowFrequencies :
       /\ tuner' = onaudioprocess(tuner, p, frequency)
       /\ tunerEvent' = [op |-> "audioprocess",
                         outcome |-> "",
                         processor |-> p,
                         window |-> WindowName(frequency),
                         previous |-> tuner.processors[p],
                         surfaced |-> /\ frequency > 0
                                      /\ Debounced(tuner.lastNoteNameRef,
                                                   frequencyToNote(frequency, MIDDLE_A))]
  /\ TunerFrame

NextTuner == TunerStart \/ TunerMediaSettles \/ TunerStop \/ TunerAudioProcess

(***************************************************************************)
(* The drum looper page: the editor's mutations of the project             *)
(* (src/unnamed/part_005).  Swing is in hundredths.                        *)
(***************************************************************************)
DEFAULT_BEATS_PER_BAR == 4
DEFAULT_BARS == 1
DEFAULT_BPM == 120
DEFAULT_REPEATS == 2
DEFAULT_STEPS_PER_BEAT == 4

\* What a user can type into a number input (min and max do not restrain typing), pick
\* in the steps select, and reach with the range sliders (which do stay in their range).
TypedNumbers ==
  [f \in {"beatsPerBar", "bars", "repeats"} |->
     CASE f = "beatsPerBar" -> {40} [] f = "bars" -> {0, 40} [] f = "repeats" -> {0, -1}]
StepsPerBeatOptions == {8}
SwingSliderValues == {75}
BpmSliderValues == {MAX_BPM}
NudgeSliderValues == {-80}
TappedWindows == {<<0, 3500>>}
EditorSectionIds == 1..MaxSections
EditorStarterTrack == [id |-> "kick-1", nudgeMs |-> 0]
EditorNumberFields == DOMAIN TypedNumbers
\* The cells of the step grid that are painted, where the section has them.
PaintedSteps == {0, 20}

\* createSection(name, tracks, withStarterPattern): the starter pattern of a kick track
\* is [0, stepsPerBar / 2].
createSection(id, tracks, withStarterPattern) ==
  LET stepsPerBar == DEFAULT_BEATS_PER_BAR * DEFAULT_STEPS_PER_BEAT
  IN [id |-> id,
      bars |-> DEFAULT_BARS,
      beatsPerBar |-> DEFAULT_BEATS_PER_BAR,
      repeats |-> DEFAULT_REPEATS,
      stepsPerBeat |-> DEFAULT_STEPS_PER_BEAT,
      swing |-> 0,
      pattern |-> [t \in {tracks[i].id : i \in DOMAIN tracks} |->
                     IF withStarterPattern THEN <<0, stepsPerBar \div 2>> ELSE <<>>]]

createDefaultProject ==
  LET tracks == <<EditorStarterTrack>>
  IN [bpm |-> DEFAULT_BPM, sections |-> <<createSection(1, tracks, TRUE)>>, tracks |-> tracks]

\* steps.sort((a, b) => a - b)
RECURSIVE sortAscending(_)
sortAscending(steps) ==
  IF steps = <<>> THEN <<>>
  ELSE LET least == CHOOSE i \in DOMAIN steps : \A j \in DOMAIN steps : steps[i] <= steps[j]
       IN <<steps[least]>> \o sortAscending(SubSeq(steps, 1, least - 1)
                                             \o SubSeq(steps, least + 1, Len(steps)))

\* [...new Set(steps)]: the first occurrence of each value, in order
RECURSIVE uniqueInOrder(_)
uniqueInOrder(steps) ==
  IF steps = <<>> THEN <<>>
  ELSE LET rest == uniqueInOrder(SubSeq(steps, 1, Len(steps) - 1))
           last == steps[Len(steps)]
       IN IF last \in SeqRange(rest) THEN rest ELSE Append(rest, last)

\* Mutant of normalizeStepIndexes: steps at or beyond maxSteps are kept.
normalizeStepIndexesBeyond(stepIndexes, maxSteps) ==
  sortAscending(uniqueInOrder(SelectSeq(stepIndexes, LAMBDA step : step >= 0)))

\* normalizeStepIndexes(stepIndexes, maxSteps)
normalizeStepIndexes(stepIndexes, maxSteps) ==
  sortAscending(uniqueInOrder(SelectSeq(stepIndexes,
                                        LAMBDA step : step >= 0 /\ step < maxSteps)))

\* normalizeSection(section)
normalizeSection(section) ==
  [section EXCEPT !.pattern = [t \in DOMAIN section.pattern |->
                                 normalizeStepIndexes(section.pattern[t], getStepCount(section))]]

\* syncPatternTracks(section, tracks)
syncPatternTracks(section, tracks) ==
  [section EXCEPT !.pattern = [t \in {tracks[i].id : i \in DOMAIN tracks} |->
                                 IF t \in DOMAIN section.pattern THEN section.pattern[t] ELSE <<>>]]

\* Number(event.target.value) || 1
NumberOrOne(typed) == IF typed = 0 THEN 1 ELSE typed

\* { ...section, ...patch }
Patched(section, field, value) ==
  CASE field = "beatsPerBar" -> [section EXCEPT !.beatsPerBar = value]
    [] field = "bars" -> [section EXCEPT !.bars = value]
    [] field = "repeats" -> [section EXCEPT !.repeats = value]
    [] field = "stepsPerBeat" -> [section EXCEPT !.stepsPerBeat = value]
    [] field = "swing" -> [section EXCEPT !.swing = value]

\* updateSection(sectionId, patch)
updateSection(project, sectionId, field, value) ==
  [project EXCEPT !.sections =
     [i \in DOMAIN project.sections |->
        IF project.sections[i].id # sectionId THEN project.sections[i]
        ELSE syncPatternTracks(normalizeSection(Patched(project.sections[i], field, value)),
                               project.tracks)]]

\* Mutant of setStepState: the added step is appended without sorting.
setStepStateUnsorted(project, sectionId, stepIndex, trackId, shouldBeActive) ==
  [project EXCEPT !.sections =
     [i \in DOMAIN project.sections |->
        LET section == project.sections[i]
            activeSteps == IF trackId \in DOMAIN section.pattern
                             THEN section.pattern[trackId] ELSE <<>>
            hasStep == stepIndex \in SeqRange(activeSteps)
            updatedSteps == IF shouldBeActive
                              THEN Append(activeSteps, stepIndex)
                              ELSE SelectSeq(activeSteps, LAMBDA step : step # stepIndex)
        IN IF section.id # sectionId \/ hasStep = shouldBeActive THEN section
           ELSE [section EXCEPT !.pattern = (trackId :> updatedSteps) @@ @]]]

\* setStepState(sectionId, stepIndex, trackId, shouldBeActive)
setStepState(project, sectionId, stepIndex, trackId, shouldBeActive) ==
  [project EXCEPT !.sections =
     [i \in DOMAIN project.sections |->
        LET section == project.sections[i]
            activeSteps == IF trackId \in DOMAIN section.pattern
                             THEN section.pattern[trackId] ELSE <<>>
            hasStep == stepIndex \in SeqRange(activeSteps)
            updatedSteps == IF shouldBeActive
                              THEN sortAscending(Append(activeSteps, stepIndex))
                              ELSE SelectSeq(activeSteps, LAMBDA step : step # stepIndex)
        IN IF section.id # sectionId \/ hasStep = shouldBeActive THEN section
           ELSE [section EXCEPT !.pattern = (trackId :> updatedSteps) @@ @]]]

\* addSection()
addSection(project, id) ==
  [project EXCEPT !.sections = Append(@, createSection(id, project.tracks, FALSE))]

\* removeSection(sectionId)
removeSection(project, sectionId) ==
  IF Len(project.sections) <= 1 THEN project
  ELSE [project EXCEPT !.sections = SelectSeq(@, LAMBDA s : s.id # sectionId)]

\* applyTracks(tracks), as removeTrack, clearTracks and addSingleSample use it
applyTracks(project, tracks) ==
  [project EXCEPT !.sections = [i \in DOMAIN project.sections |->
                                  syncPatternTracks(project.sections[i], tracks)],
                  !.tracks = tracks]

\* updateTrack(trackId, { nudgeMs })
updateTrack(project, trackId, nudgeMs) ==
  [project EXCEPT !.tracks = [i \in DOMAIN project.tracks |->
                                IF project.tracks[i].id = trackId
                                  THEN [project.tracks[i] EXCEPT !.nudgeMs = nudgeMs]
                                  ELSE project.tracks[i]]]

InitEditor ==
  /\ editor = createDefaultProject
  /\ editorEvent = "init"

EditorUpdateSection ==
  /\ \E i \in DOMAIN editor.sections :
       \/ \E field \in EditorNumberFields :
            \E typed \in TypedNumbers[field] :
              editor' = updateSection(editor, editor.sections[i].id, field,
                                      NumberOrOne(typed))
       \/ \E picked \in StepsPerBeatOptions :
            editor' = updateSection(editor, editor.sections[i].id, "stepsPerBeat",
                                    NumberOrOne(picked))
       \/ \E slid \in SwingSliderValues :
            editor' = updateSection(editor, editor.sections[i].id, "swing", slid)
  /\ editorEvent' = IF \E i \in DOMAIN editor.sections :
                          \E t \in DOMAIN editor.sections[i].pattern :
                            Len(editor'.sections[i].pattern[t])
                              < Len(editor.sections[i].pattern[t])
                       THEN "updateSection, steps dropped" ELSE "updateSection"
  /\ EditorFrame

\* a cell of the step grid is pressed or painted over: the grid shows the steps of the
\* section for every track
EditorSetStepState ==
  /\ \E i \in DOMAIN editor.sections, t \in DOMAIN editor.tracks, shouldBeActive \in BOOLEAN :
       \E stepIndex \in PaintedSteps \cap 0..(getStepCount(editor.sections[i]) - 1) :
         editor' = setStepState(editor, editor.sections[i].id, stepIndex,
                                editor.tracks[t].id, shouldBeActive)
  /\ editorEvent' = "setStepState"
  /\ EditorFrame

EditorAddSection ==
  /\ Len(editor.sections) < MaxSections
  /\ editor' = addSection(editor, CHOOSE id \in EditorSectionIds :
                                    \A i \in DOMAIN editor.sections : editor.sections[i].id # id)
  /\ editorEvent' = "addSection"
  /\ EditorFrame

EditorRemoveSection ==
  /\ \E i \in DOMAIN editor.sections :
       editor' = removeSection(editor, editor.sections[i].id)
  /\ editorEvent' = "removeSection"
  /\ EditorFrame

\* the BPM range slider
EditorBpmSlider ==
  /\ \E slid \in BpmSliderValues : editor' = [editor EXCEPT !.bpm = slid]
  /\ editorEvent' = "bpm"
  /\ EditorFrame

\* useTapTempo's onTempoChange: setProject(prev => ({ ...prev, bpm }))
EditorTapTempo ==
  /\ \E taps \in TappedWindows : editor' = [editor EXCEPT !.bpm = CalculatedTapBpm(taps)]
  /\ editorEvent' = "tap"
  /\ EditorFrame

\* removeTrack, addSingleSample and the nudge slider of updateTrack
EditorTrackEdit ==
  /\ \/ \E i \in DOMAIN editor.tracks :
          editor' = applyTracks(editor, SelectSeq(editor.tracks,
                                                  LAMBDA t : t.id # editor.tracks[i].id))
     \/ /\ editor.tracks = <<>>
        /\ editor' = applyTracks(editor, <<EditorStarterTrack>>)
     \/ \E i \in DOMAIN editor.tracks, slid \in NudgeSliderValues :
          editor' = updateTrack(editor, editor.tracks[i].id, slid)
  /\ editorEvent' = "track"
  /\ EditorFrame

NextEditor ==
  \/ EditorUpdateSection \/ EditorAddSection \/ EditorRemoveSection
  \/ EditorBpmSlider \/ EditorTapTempo \/ EditorTrackEdit

\* The mutations that touch the patterns.
NextPattern ==
  EditorUpdateSection \/ EditorSetStepState \/ EditorAddSection \/ EditorTrackEdit

(***************************************************************************)
(* The drum looper page: the shared URL state                              *)
(* (src/src/lib/keyboard-shortcuts-context.ts lines 18-42,                 *)
(* src/src/lib/drum-looper-types.ts, useInitialProject of                  *)
(* src/unnamed/part_005).  A JSON number n is held as 1000 n.  A state     *)
(* string is held as what lz-string's decompression makes of it: nothing   *)
(* (null or the empty string) or a text; a text is held as what JSON.parse *)
(* makes of it: a syntax error or a value.                                 *)
(***************************************************************************)
Thousandths(n) == n * 1000

\* Number.isInteger
IsInteger(x) == x % Thousandths(1) = 0

\* The project of the URL state tests (src/unnamed/part_008 lines 91-122).
SampleTrack ==
  [id |-> "kick-track", mute |-> FALSE, name |-> "Kick", nudgeMs |-> Thousandths(-4),
   pan |-> 0, samplePath |-> "/drum-looper/kit-a/kicks/kick-1.wav", solo |-> FALSE,
   volume |-> 850]
SampleSection ==
  [bars |-> Thousandths(2), beatsPerBar |-> Thousandths(4), id |-> "section-a",
   name |-> "Verse",
   pattern |-> ("kick-track" :> <<0, Thousandths(4), Thousandths(8), Thousandths(12)>>),
   repeats |-> Thousandths(2), stepsPerBeat |-> Thousandths(4), swing |-> 150]
sampleProject ==
  [bpm |-> Thousandths(96), masterVolume |-> 720, sections |-> <<SampleSection>>,
   tracks |-> <<SampleTrack>>, version |-> Thousandths(1)]

\* The keys the schemas give a default.
TrackDefaults == {"mute", "nudgeMs", "pan", "solo", "volume"}
SectionDefaults == {"bars", "beatsPerBar", "repeats", "stepsPerBeat", "swing"}
ProjectDefaults == {"bpm", "masterVolume"}

Without(object, keys) == [k \in DOMAIN object \ keys |-> object[k]]

\* The values the explored payloads give to four of the fields, and their shapes.
PayloadBpms ==
  {Thousandths(19), Thousandths(20), 96500, Thousandths(96), Thousandths(300),
   Thousandths(301), Thousandths(1000)}
PayloadVolumes == {720, 1001}
PayloadBars == {Thousandths(2), Thousandths(17)}
PayloadNudges == {Thousandths(-81), Thousandths(-4)}
PayloadPatterns ==
  {<<0, Thousandths(4), Thousandths(8), Thousandths(12)>>, <<Thousandths(40), 0, 0>>,
   <<Thousandths(-1)>>}
PayloadShapes ==
  {"full", "minimal", "noDefaults", "extraKey", "noSections", "noTracks", "version2",
   "noVersion", "noTrackId", "emptyName"}

Shaped(project, shape) ==
  CASE shape = "full" -> project
    [] shape = "minimal" ->
         [project EXCEPT !.tracks = <<Without(project.tracks[1], TrackDefaults)>>,
                         !.sections = <<Without(project.sections[1], SectionDefaults)>>]
    [] shape = "noDefaults" -> Without(project, ProjectDefaults)
    [] shape = "extraKey" -> ("title" :> "Demo") @@ project
    [] shape = "noSections" -> [project EXCEPT !.sections = <<>>]
    [] shape = "noTracks" -> [project EXCEPT !.tracks = <<>>]
    [] shape = "version2" -> [project EXCEPT !.version = Thousandths(2)]
    [] shape = "noVersion" -> Without(project, {"version"})
    [] shape = "noTrackId" -> [project EXCEPT !.tracks = <<Without(project.tracks[1], {"id"})>>]
    [] shape = "emptyName" -> [project EXCEPT !.sections[1].name = ""]

PayloadsOf(shapes) ==
  {Shaped([sampleProject EXCEPT !.bpm = bpm, !.masterVolume = volume,
                                !.sections[1].bars = bars,
                                !.sections[1].pattern["kick-track"] = steps,
                                !.tracks[1].nudgeMs = nudge], shape) :
     bpm \in PayloadBpms, volume \in PayloadVolumes, bars \in PayloadBars,
     steps \in PayloadPatterns, nudge \in PayloadNudges, shape \in shapes}

Payloads == PayloadsOf(PayloadShapes)

\* ---- zod ----
Within(x, lo, hi) == x >= lo /\ x <= hi

\* Mutant of Field: the default replaces a value that is present.
FieldDefaulted(object, key, default) == default

\* .default(value): the default stands in for a missing key.
Field(object, key, default) == IF key \in DOMAIN object THEN object[key] ELSE default

Has(object, key) == key \in DOMAIN object

\* drumTrackSchema: whether the parse succeeds, and its data (defaults applied, unknown
\* keys stripped).
trackAccepted(t) ==
  /\ Has(t, "id") /\ t.id # ""
  /\ Has(t, "name") /\ t.name # ""
  /\ Has(t, "samplePath") /\ t.samplePath # ""
  /\ Within(Field(t, "nudgeMs", 0), Thousandths(-80), Thousandths(80))
  /\ Within(Field(t, "pan", 0), Thousandths(-1), Thousandths(1))
  /\ Within(Field(t, "volume", 800), 0, Thousandths(1))

trackData(t) ==
  [id |-> t.id, mute |-> Field(t, "mute", FALSE), name |-> t.name,
   nudgeMs |-> Field(t, "nudgeMs", 0), pan |-> Field(t, "pan", 0),
   samplePath |-> t.samplePath, solo |-> Field(t, "solo", FALSE),
   volume |-> Field(t, "volume", 800)]

IntegerWithin(x, lo, hi) == IsInteger(x) /\ Within(x, Thousandths(lo), Thousandths(hi))

\* drumSectionSchema
sectionAccepted(s) ==
  /\ IntegerWithin(Field(s, "bars", Thousandths(1)), 1, 16)
  /\ IntegerWithin(Field(s, "beatsPerBar", Thousandths(4)), 1, 32)
  /\ Has(s, "id") /\ s.id # ""
  /\ Has(s, "name") /\ s.name # ""
  /\ Has(s, "pattern")
  /\ \A t \in DOMAIN s.pattern :
       \A i \in DOMAIN s.pattern[t] : IsInteger(s.pattern[t][i]) /\ s.pattern[t][i] >= 0
  /\ IntegerWithin(Field(s, "repeats", Thousandths(1)), 1, 32)
  /\ IntegerWithin(Field(s, "stepsPerBeat", Thousandths(4)), 1, 8)
  /\ Within(Field(s, "swing", 0), 0, 750)

sectionData(s) ==
  [bars |-> Field(s, "bars", Thousandths(1)),
   beatsPerBar |-> Field(s, "beatsPerBar", Thousandths(4)),
   id |-> s.id, name |-> s.name, pattern |-> s.pattern,
   repeats |-> Field(s, "repeats", Thousandths(1)),
   stepsPerBeat |-> Field(s, "stepsPerBeat", Thousandths(4)),
   swing |-> Field(s, "swing", 0)]

\* Mutant of projectAccepted: bpm has no upper limit.
projectAcceptedAnyBpm(p) ==
  /\ IsInteger(Field(p, "bpm", Thousandths(120)))
  /\ Field(p, "bpm", Thousandths(120)) >= Thousandths(MIN_BPM)
  /\ Within(Field(p, "masterVolume", 800), 0, Thousandths(1))
  /\ Has(p, "sections") /\ Len(p.sections) >= 1
  /\ \A i \in DOMAIN p.sections : sectionAccepted(p.sections[i])
  /\ Has(p, "tracks")
  /\ \A i \in DOMAIN p.tracks : trackAccepted(p.tracks[i])
  /\ Has(p, "version") /\ p.version = Thousandths(1)

\* drumProjectSchema
projectAccepted(p) ==
  /\ IntegerWithin(Field(p, "bpm", Thousandths(120)), MIN_BPM, MAX_BPM)
  /\ Within(Field(p, "masterVolume", 800), 0, Thousandths(1))
  /\ Has(p, "sections") /\ Len(p.sections) >= 1
  /\ \A i \in DOMAIN p.sections : sectionAccepted(p.sections[i])
  /\ Has(p, "tracks")
  /\ \A i \in DOMAIN p.tracks : trackAccepted(p.tracks[i])
  /\ Has(p, "version") /\ p.version = Thousandths(1)

projectData(p) ==
  [bpm |-> Field(p, "bpm", Thousandths(120)),
   masterVolume |-> Field(p, "masterVolume", 800),
   sections |-> [i \in DOMAIN p.sections |-> sectionData(p.sections[i])],
   tracks |-> [i \in DOMAIN p.tracks |-> trackData(p.tracks[i])],
   version |-> p.version]

\* drumProjectSchema.safeParse(value): <<data>> on success, <<>> otherwise
safeParse(value) == IF projectAccepted(value) THEN <<projectData(value)>> ELSE <<>>

\* ---- texts and state strings ----
NotJson == [json |-> FALSE, value |-> <<>>]
\* JSON.stringify(value): every key of the explored values is written, and JSON.parse
\* reads the value back.
JSONstringify(value) == [json |-> TRUE, value |-> <<value>>]

UndefinedState == [kind |-> "undefined", text |-> <<>>]
EmptyState == [kind |-> "empty", text |-> <<>>]
\* A string decompressFromEncodedURIComponent makes null or the empty string of.
UndecodableState == [kind |-> "undecodable", text |-> <<>>]
compressToEncodedURIComponent(text) == [kind |-> "lz", text |-> <<text>>]

StateStrings ==
  {UndefinedState, EmptyState, UndecodableState, compressToEncodedURIComponent(NotJson)}
    \cup {compressToEncodedURIComponent(JSONstringify(p)) : p \in Payloads}

\* !state
Falsy(state) == state.kind \in {"undefined", "empty"}

\* decodeProjectFromState(state): <<project>> or <<>> for null
decodeProjectFromState(state) ==
  IF Falsy(state) THEN <<>>
  ELSE LET decompressed == state.text
       IN IF decompressed = <<>> THEN <<>>
          ELSE IF ~decompressed[1].json THEN <<>>
          ELSE safeParse(decompressed[1].value[1])

\* encodeProjectToState(project)
encodeProjectToState(project) == compressToEncodedURIComponent(JSONstringify(project))

\* ---- useInitialProject ----
RECURSIVE SortedSeq(_)
SortedSeq(numbers) ==
  IF numbers = {} THEN <<>>
  ELSE LET least == CHOOSE n \in numbers : \A m \in numbers : n <= m
       IN <<least>> \o SortedSeq(numbers \ {least})

\* normalizeSection(section), on a parsed section
normalizeParsedSection(section) ==
  LET stepCount == (section.beatsPerBar \div Thousandths(1))
                     * (section.bars \div Thousandths(1))
                     * (section.stepsPerBeat \div Thousandths(1))
      kept(steps) == {steps[i] : i \in DOMAIN steps} \cap 0..(Thousandths(stepCount) - 1)
  IN [section EXCEPT !.pattern = [t \in DOMAIN section.pattern |->
                                    SortedSeq(kept(section.pattern[t]))]]

CouldNotParse == "Could not parse shared URL state."
SharedStateInvalid == "Shared URL state is invalid."

\* useInitialProject(): fromDefault tells that the project is createDefaultProject()'s,
\* otherwise shared holds it.
useInitialProject(state) ==
  LET decoded == decodeProjectFromState(state)
  IN IF decoded = <<>>
       THEN [error |-> IF ~Falsy(state) THEN CouldNotParse ELSE "null",
             fromDefault |-> TRUE, shared |-> <<>>]
     ELSE LET parsed == safeParse(decoded[1])
          IN IF parsed = <<>>
               THEN [error |-> SharedStateInvalid, fromDefault |-> TRUE, shared |-> <<>>]
               ELSE [error |-> "null", fromDefault |-> FALSE,
                     shared |-> <<[parsed[1] EXCEPT !.sections =
                                     [i \in DOMAIN @ |-> normalizeParsedSection(@[i])]]>>]

\* The projects the page's state can hold: every key present, at least one section, the
\* values any the inputs can give.
PageProjects == PayloadsOf({"full", "noTracks", "emptyName"})

UrlIdle ==
  [op |-> "init", state |-> UndefinedState, source |-> <<>>, decoded |-> <<>>,
   page |-> [error |-> "null", fromDefault |-> TRUE, shared |-> <<>>]]

InitUrlState == urlState = UrlIdle

\* copyShareUrl: the page's project is encoded into a link
UrlShare ==
  /\ \E project \in PageProjects :
       urlState' = [UrlIdle EXCEPT !.op = "share",
                                   !.state = encodeProjectToState(project),
                                   !.source = <<project>>]
  /\ UrlStateFrame

\* the page is opened: with any state string, or with the link just copied
UrlOpen ==
  /\ \E state \in StateStrings :
       /\ urlState' = [op |-> "open", state |-> state,
                       source |-> IF state = urlState.state THEN urlState.source ELSE <<>>,
                       decoded |-> decodeProjectFromState(state),
                       page |-> useInitialProject(state)]
  /\ UrlStateFrame

NextUrlState == UrlShare \/ UrlOpen

(***************************************************************************)
(* The metronome page: accent beats, click types and tempo names           *)
(* (src/src/routes/metronome.tsx, getClickType of use-tap-tempo.ts)        *)
(***************************************************************************)
TEMPO_MARKINGS ==
  << [maxBpm |-> 24, minBpm |-> 20, name |-> "Larghissimo"],
     [maxBpm |-> 40, minBpm |-> 25, name |-> "Grave"],
     [maxBpm |-> 60, minBpm |-> 41, name |-> "Largo"],
     [maxBpm |-> 66, minBpm |-> 61, name |-> "Larghetto"],
     [maxBpm |-> 76, minBpm |-> 67, name |-> "Adagio"],
     [maxBpm |-> 80, minBpm |-> 77, name |-> "Adagietto"],
     [maxBpm |-> 108, minBpm |-> 81, name |-> "Andante"],
     [maxBpm |-> 120, minBpm |-> 109, name |-> "Moderato"],
     [maxBpm |-> 156, minBpm |-> 121, name |-> "Allegro"],
     [maxBpm |-> 176, minBpm |-> 157, name |-> "Vivace"],
     [maxBpm |-> 200, minBpm |-> 177, name |-> "Presto"],
     [maxBpm |-> 300, minBpm |-> 201, name |-> "Prestissimo"] >>

\* Mutant of getTempoName: the upper limit of a marking is excluded.
getTempoNameBelowMax(bpm) ==
  LET found == {i \in DOMAIN TEMPO_MARKINGS :
                  bpm >= TEMPO_MARKINGS[i].minBpm /\ bpm < TEMPO_MARKINGS[i].maxBpm}
  IN IF found = {} THEN ""
     ELSE TEMPO_MARKINGS[CHOOSE i \in found : \A j \in found : i <= j].name

\* getTempoName(bpm): TEMPO_MARKINGS.find(...)?.name ?? ''
getTempoName(bpm) ==
  LET found == {i \in DOMAIN TEMPO_MARKINGS :
                  bpm >= TEMPO_MARKINGS[i].minBpm /\ bpm <= TEMPO_MARKINGS[i].maxBpm}
  IN IF found = {} THEN ""
     ELSE TEMPO_MARKINGS[CHOOSE i \in found : \A j \in found : i <= j].name

\* Subdivisions of TIME_SIGNATURES the model draws from, and the bpm values the helper
\* is called with.
PageSubdivisions ==
  {<<4>>, <<2, 2>>, <<1>>, <<3, 3>>, <<2, 2, 2>>, <<2, 2, 3>>, <<3, 2, 3>>, <<2, 2, 2, 3>>}
PageBpms == 0..320

MetroPageIdle ==
  [subdivision |-> <<4>>, bpm |-> 120,
   accentBeats |-> <<>>,    \* <<getAccentBeats(subdivision)>> once computed
   click |-> <<>>,          \* <<[beat, type]>>: the last beat clicked
   tempoName |-> <<>>]      \* <<getTempoName(bpm)>> once computed

InitMetroPage ==
  \E subdivision \in PageSubdivisions, bpm \in PageBpms :
    metroPage = [MetroPageIdle EXCEPT !.subdivision = subdivision, !.bpm = bpm]

\* the page computes the accent beats of its time signature and hands them to the hook
PageAccentBeats ==
  /\ metroPage.accentBeats = <<>>
  /\ metroPage' = [metroPage EXCEPT !.accentBeats = <<getAccentBeats(metroPage.subdivision)>>]
  /\ MetroPageFrame

\* the hook plays the click of a beat of the measure
PageClick ==
  /\ metroPage.accentBeats # <<>>
  /\ \E beat \in 0..(SumSeq(metroPage.subdivision) - 1) :
       metroPage' = [metroPage EXCEPT
                       !.click = <<[beat |-> beat,
                                    type |-> getClickType(beat, metroPage.accentBeats[1])]>>]
  /\ MetroPageFrame

\* the page shows the name of its tempo
PageTempoName ==
  /\ metroPage.tempoName = <<>>
  /\ metroPage' = [metroPage EXCEPT !.tempoName = <<getTempoName(metroPage.bpm)>>]
  /\ MetroPageFrame

NextMetroPage == PageAccentBeats \/ PageClick \/ PageTempoName

(***************************************************************************)
(* getSwingOffsetSeconds as a function of its arguments                    *)
(***************************************************************************)
\* The arguments of the explored calls: swing in hundredths (the slider gives 0..75),
\* step indexes, and step durations 60 / bpm / stepsPerBeat in ms.
SwingValues == -5..80
SwingStepIndexes == 0..7
SwingStepDurations ==
  {(MS_PER_MINUTE \div bpm) \div stepsPerBeat : bpm \in {20, 120, 300}, stepsPerBeat \in {1, 4, 8}}

SwingIdle == [swingPct |-> 0, stepIndex |-> 0, stepDuration |-> 125, offset |-> <<>>]

InitSwing ==
  \E swing \in SwingValues, stepIndex \in SwingStepIndexes, duration \in SwingStepDurations :
    swingCall = [swingPct |-> swing, stepIndex |-> stepIndex, stepDuration |-> duration,
                 offset |-> <<>>]

\* scheduleStep calls getSwingOffsetSeconds for the step
SwingOffsetCall ==
  /\ swingCall.offset = <<>>
  /\ swingCall' = [swingCall EXCEPT
                     !.offset = <<getSwingOffsetSeconds([swingPct |-> swingCall.swingPct],
                                                        swingCall.stepIndex,
                                                        swingCall.stepDuration)>>]
  /\ SwingFrame

NextSwing == SwingOffsetCall

(***************************************************************************)
(* Specifications                                                          *)
(***************************************************************************)
\* The other hooks, constructed with their defaults and left alone.
HelpersIdle ==
  /\ urlState = UrlIdle
  /\ metroPage = MetroPageIdle
  /\ swingCall = SwingIdle

TapConstructed ==
  /\ tapOpts = [maxTaps |-> DEFAULT_MAX_TAPS, resetAfterMs |-> DEFAULT_RESET_AFTER_MS]
  /\ tapNow = 0
  /\ tapsRef = <<>>
  /\ tapCount = 0
  /\ tapBpm = Null
  /\ resetTimeoutRef = Null
  /\ tapTimeouts = {}
  /\ tempoCalls = <<>>
  /\ tapEvent = "init"

DefaultMetroOptions ==
  [beatsPerMeasure |-> 4, accentBeats |-> <<0>>, bpm |-> 120, countIn |-> 0,
   speedTrainer |-> SpeedTrainerOff, timer |-> TimerOff]

MetroDefaultConstructed ==
  /\ metroOpts = DefaultMetroOptions
  /\ metro = MetroConstructed(metroOpts)
  /\ metroEvent = [op |-> "init", arg |-> 0]

DrumDefaultConstructed ==
  /\ drumProject = KitProject
  /\ drum = DrumConstructed
  /\ drumEvent = NoDrumEvent

TunerDefaultConstructed ==
  /\ pitch = PitchIdle
  /\ tuner = TunerConstructed
  /\ tunerEvent = NoTunerEvent
  /\ InitEditor
  /\ HelpersIdle

InitSpecTap ==
  InitTap /\ MetroDefaultConstructed /\ DrumDefaultConstructed /\ TunerDefaultConstructed
SpecTap == InitSpecTap /\ [][NextTap]_vars

InitSpecMetro ==
  InitMetro /\ TapConstructed /\ DrumDefaultConstructed /\ TunerDefaultConstructed
SpecMetro == InitSpecMetro /\ [][NextMetro]_vars

InitSpecMetroApi ==
  InitMetroApi /\ TapConstructed /\ DrumDefaultConstructed /\ TunerDefaultConstructed
SpecMetroApi == InitSpecMetroApi /\ [][NextMetroApi]_vars

InitSpecDrum ==
  InitDrum /\ TapConstructed /\ MetroDefaultConstructed /\ TunerDefaultConstructed
SpecDrum == InitSpecDrum /\ [][NextDrum]_vars

InitSpecDrumMix ==
  InitDrumMix /\ TapConstructed /\ MetroDefaultConstructed /\ TunerDefaultConstructed
SpecDrumMix == InitSpecDrumMix /\ [][NextDrum]_vars

InitSpecPitch ==
  /\ InitPitch
  /\ InitTuner
  /\ InitEditor
  /\ TapConstructed /\ MetroDefaultConstructed /\ DrumDefaultConstructed
  /\ HelpersIdle
SpecPitch == InitSpecPitch /\ [][NextPitch]_vars

InitSpecTuner ==
  /\ InitTuner
  /\ InitEditor
  /\ pitch = PitchIdle
  /\ TapConstructed /\ MetroDefaultConstructed /\ DrumDefaultConstructed
  /\ HelpersIdle
SpecTuner == InitSpecTuner /\ [][NextTuner]_vars

InitSpecEditor ==
  /\ InitEditor
  /\ pitch = PitchIdle
  /\ InitTuner
  /\ TapConstructed /\ MetroDefaultConstructed /\ DrumDefaultConstructed
  /\ HelpersIdle
SpecEditor == InitSpecEditor /\ [][NextEditor]_vars

InitSpecPattern ==
  /\ InitEditor
  /\ pitch = PitchIdle
  /\ InitTuner
  /\ TapConstructed /\ MetroDefaultConstructed /\ DrumDefaultConstructed
  /\ HelpersIdle
SpecPattern == InitSpecPattern /\ [][NextPattern]_vars

InitSpecUrlState ==
  /\ InitUrlState
  /\ metroPage = MetroPageIdle
  /\ swingCall = SwingIdle
  /\ InitEditor
  /\ pitch = PitchIdle
  /\ InitTuner
  /\ TapConstructed /\ MetroDefaultConstructed /\ DrumDefaultConstructed
SpecUrlState == InitSpecUrlState /\ [][NextUrlState]_vars

InitSpecMetroPage ==
  /\ InitMetroPage
  /\ urlState = UrlIdle
  /\ swingCall = SwingIdle
  /\ InitEditor
  /\ pitch = PitchIdle
  /\ InitTuner
  /\ TapConstructed /\ MetroDefaultConstructed /\ DrumDefaultConstructed
SpecMetroPage == InitSpecMetroPage /\ [][NextMetroPage]_vars

InitSpecSwing ==
  /\ InitSwing
  /\ urlState = UrlIdle
  /\ metroPage = MetroPageIdle
  /\ InitEditor
  /\ pitch = PitchIdle
  /\ InitTuner
  /\ TapConstructed /\ MetroDefaultConstructed /\ DrumDefaultConstructed
SpecSwing == InitSpecSwing /\ [][NextSwing]_vars

(***************************************************************************)
(* Claims: useTapTempo                                                     *)
(***************************************************************************)
LastTap == tapsRef[Len(tapsRef)]

\* The value the specification prescribes for a window of n >= 2 taps whose intervals
\* sum to a positive span: the integer nearest to 60000 / (span / (n - 1)), halves
\* rounded up, clamped to [20, 300]; a span of 0 gives +Infinity, clamped to 300.
IsSpecifiedBpm(b, taps) ==
  LET span == taps[Len(taps)] - taps[1]
      n == Len(taps) - 1
  IN IF span = 0 THEN b = 300
     ELSE \E r \in 0..MS_PER_MINUTE :
            /\ (2 * r - 1) * span <= 2 * MS_PER_MINUTE * n
            /\ 2 * MS_PER_MINUTE * n < (2 * r + 1) * span
            /\ b = (IF r < 20 THEN 20 ELSE IF r > 300 THEN 300 ELSE r)

\* C9: after a tap, bpm is non-null iff the window holds at least 2 taps; then bpm is
\* clamp(round(60000 / mean interval), 20, 300) and onTempoChange was called with
\* exactly that value; a single tap leaves bpm null and calls nothing; taps at 0, 500
\* and 1000 ms give 120.
C9_TapBpm ==
  tapEvent = "tap" =>
    /\ (tapBpm # Null) <=> (Len(tapsRef) >= 2)
    /\ Len(tapsRef) >= 2 =>
         /\ IsSpecifiedBpm(tapBpm, tapsRef)
         /\ tempoCalls = <<tapBpm>>
    /\ Len(tapsRef) < 2 => tempoCalls = <<>>
    /\ tapsRef = <<0, 500, 1000>> => tapBpm = 120

C9_Witness ==
  /\ tapEvent = "tap"
  /\ tapsRef = <<0, 500, 1000>>
  /\ tapBpm = 120
  /\ tempoCalls = <<120>>

\* C10: at most one inactivity timeout is pending, it is the one resetTimeoutRef names
\* and it was armed by the last tap (due resetAfterMs after it); it has not fired while
\* the last tap is younger than resetAfterMs, it runs once that time has passed, and
\* when it runs the window is emptied, tapCount is 0 and bpm is null.
C10_TimeoutState ==
  /\ Cardinality(tapTimeouts) <= 1
  /\ \A t \in tapTimeouts : t.id = resetTimeoutRef
  /\ tapsRef # <<>> =>
       /\ tapTimeouts = {[id |-> resetTimeoutRef, due |-> LastTap + tapOpts.resetAfterMs]}
       /\ tapNow <= LastTap + tapOpts.resetAfterMs
       /\ tapNow = LastTap + tapOpts.resetAfterMs =>
            (ENABLED TapTimeoutFires /\ ~ENABLED TapAdvance)
  /\ tapEvent = "timeout" =>
       (tapsRef = <<>> /\ tapCount = 0 /\ tapBpm = Null /\ tapTimeouts = {})

C10_TimeoutStep ==
  (tapEvent' = "timeout") =>
     (tapsRef # <<>> => tapNow >= LastTap + tapOpts.resetAfterMs)

C10_InactivityTimeout == [](C10_TimeoutState) /\ [][C10_TimeoutStep]_vars

C10_Witness ==
  /\ tapEvent = "timeout"
  /\ tapNow = DEFAULT_RESET_AFTER_MS + 1000
  /\ tapOpts.resetAfterMs = DEFAULT_RESET_AFTER_MS
  /\ tapsRef = <<>>
  /\ tapBpm = Null

\* C11 (state part): the window holds at most maxTaps timestamps, in arrival order (no
\* timestamp is later than its successor or than the clock), and tapCount is its size.
C11_WindowState ==
  /\ Len(tapsRef) <= tapOpts.maxTaps
  /\ tapCount = Len(tapsRef)
  /\ \A i \in 1..(Len(tapsRef) - 1) : tapsRef[i] <= tapsRef[i + 1]
  /\ \A i \in 1..Len(tapsRef) : tapsRef[i] <= tapNow

\* C11 (step part): a tap appends the clock's reading; on a full window it evicts exactly
\* the oldest timestamp, on any other window nothing; reset() empties the window.
C11_WindowStep ==
  /\ tapEvent' = "tap" =>
       tapsRef' = IF Len(tapsRef) >= tapOpts.maxTaps
                    THEN Append(Tail(tapsRef), tapNow)
                    ELSE Append(tapsRef, tapNow)
  /\ tapEvent' = "reset" => tapsRef' = <<>>

\* C11: the tap window is a bounded, ordered list of at most maxTaps timestamps; a tap on
\* a full window evicts the oldest one, and reset() empties it.
C11_Window == [](C11_WindowState) /\ [][C11_WindowStep]_vars

C11_Witness ==
  /\ tapEvent = "tap"
  /\ tapOpts.maxTaps = 3
  /\ tapsRef = <<500, 1000, 1500>>
  /\ tapCount = 3

(***************************************************************************)
(* Claims: useMetronome                                                    *)
(***************************************************************************)
RECURSIVE CountType(_, _)
CountType(log, countIns) ==
  IF log = <<>> THEN 0
  ELSE (IF (Head(log).type = "countIn") = countIns THEN 1 ELSE 0) + CountType(Tail(log), countIns)

\* Beat clicks (downbeat, accent, normal) since the last play().
RunBeats == CountType(metro.runLog, FALSE)

BeatIntervals(m) == {t \in m.intervals : t.kind = "beat"}
SecondsIntervals(m) == {t \in m.intervals : t.kind = "seconds"}
CountInIntervals(m) == {t \in m.intervals : t.kind = "countIn"}

\* C5 (state part): with countIn = n > 0 the clicks of a run are the count-in clicks
\* n, n-1, ..., 1 in that order, then beat clicks starting with beat 0, never a beat
\* click before the n-th count-in click; while counting in, countInRemaining is the
\* value of the last count-in click; once Running, all n count-in clicks were produced
\* and countInRemaining is 0.
C5_CountInState ==
  LET n == metroOpts.countIn
      log == metro.runLog
  IN n > 0 =>
       /\ \A i \in 1..Len(log) :
            /\ i <= n => log[i] = [type |-> "countIn", value |-> n - i + 1]
            /\ i > n => log[i].type # "countIn"
       /\ Len(log) > n => log[n + 1] = [type |-> "downbeat", value |-> 0]
       /\ metro.isCountingIn =>
            /\ metro.isPlaying
            /\ Len(log) \in 1..n
            /\ metro.countInRemaining = log[Len(log)].value
            /\ BeatIntervals(metro) = {}
       /\ (metro.isPlaying /\ ~metro.isCountingIn) =>
            (Len(log) > n /\ metro.countInRemaining = 0)

\* C5 (step part): play() produces the first count-in click and installs the count-in
\* interval with period 60000/bpm; each firing of it produces exactly the next lower
\* count, until the firing after count 1, which leaves CountingIn and clicks beat 0.
C5_CountInStep ==
  LET n == metroOpts.countIn
  IN /\ (metroEvent'.op = "play" /\ n > 0) =>
          /\ metro'.isCountingIn /\ metro'.countInRemaining = n
          /\ metro'.clicks = <<[type |-> "countIn", value |-> n]>>
          /\ \E t \in metro'.intervals :
               t.id = metro'.intervalRef /\ t.kind = "countIn" /\ t.bpm = metro.bpm
     /\ metroEvent'.op = "countInTick" =>
          /\ metro.isCountingIn
          /\ IF metro.countInRemaining > 1
               THEN /\ metro'.isCountingIn
                    /\ metro'.countInRemaining = metro.countInRemaining - 1
                    /\ metro'.clicks = <<[type |-> "countIn", value |-> metro.countInRemaining - 1]>>
                    /\ {[id |-> t.id, bpm |-> t.bpm] : t \in CountInIntervals(metro')}
                         = {[id |-> t.id, bpm |-> t.bpm] : t \in CountInIntervals(metro)}
               ELSE /\ ~metro'.isCountingIn
                    /\ metro'.countInRemaining = 0
                    /\ CountInIntervals(metro') = {}
                    /\ Head(metro'.clicks) = [type |-> "downbeat", value |-> 0]

C5_CountIn == [](C5_CountInState) /\ [][C5_CountInStep]_vars

C5_Witness ==
  /\ metroEvent.op = "countInTick"
  /\ metroOpts.countIn = 2
  /\ metro.isPlaying /\ ~metro.isCountingIn
  /\ metro.countInRemaining = 0
  /\ metro.runLog = << [type |-> "countIn", value |-> 2], [type |-> "countIn", value |-> 1],
                       [type |-> "downbeat", value |-> 0] >>

\* C6: with the speed trainer enabled, finite loops L, R repeats per loop and n beats per
\* measure, and no running timer, a run never produces more than L*R*n beat clicks;
\* onComplete has fired (exactly once) iff all L*R*n clicks were produced, and then the
\* engine is stopped with no interval left; while Running the beat interval runs at the
\* trainer's currentBpm, which for start bpm 100 and increment 10 is 110 in loop 2.
C6_SpeedTrainerRun ==
  LET o == metroOpts
      total == o.speedTrainer.loops * o.speedTrainer.repeatsPerLoop * o.beatsPerMeasure
  IN (o.speedTrainer.enabled /\ o.speedTrainer.loops > 0
        /\ ~(o.timer.enabled /\ o.timer.durationSeconds > 0)) =>
       /\ RunBeats <= total
       /\ metro.completes <= 1
       /\ (metro.completes = 1) <=> (RunBeats = total)
       /\ RunBeats = total =>
            (~metro.isPlaying /\ metro.intervals = {} /\ metro.intervalRef = Null)
       /\ (metro.isPlaying /\ ~metro.isCountingIn) =>
            /\ RunBeats >= 1
            /\ BeatIntervals(metro) =
                 {[id |-> metro.intervalRef, kind |-> "beat",
                   bpm |-> metro.speedTrainerRef.currentBpm, remaining |-> 0]}
            /\ (metro.bpm = 100 /\ o.speedTrainer.bpmIncrement = 10
                  /\ metro.speedTrainerRef.currentLoop = 2) =>
                 metro.speedTrainerRef.currentBpm = 110

C6_Witness ==
  /\ metroEvent.op = "tick"
  /\ metroOpts.speedTrainer = [enabled |-> TRUE, loops |-> 2, repeatsPerLoop |-> 1,
                               bpmIncrement |-> 10]
  /\ metroOpts.beatsPerMeasure = 2 /\ metroOpts.bpm = 100 /\ ~metroOpts.timer.enabled
  /\ metro.speedTrainerRef.currentBpm = 110
  /\ RunBeats = 4
  /\ metro.completes = 1
  /\ ~metro.isPlaying

TimerActive == metroOpts.timer.enabled /\ metroOpts.timer.durationSeconds > 0

\* The speed trainer settings under which every tick ends a loop, so that the whole run
\* unfolds inside startInterval's immediate tick: one beat per measure, one repeat per loop.
RunCompletesAtOnce ==
  /\ metroOpts.speedTrainer.enabled
  /\ metroOpts.speedTrainer.repeatsPerLoop = 1 /\ metroOpts.beatsPerMeasure = 1

Running(m) == m.isPlaying /\ ~m.isCountingIn

C7_TimerState ==
  TimerActive =>
    /\ metro.elapsedSeconds < metroOpts.timer.durationSeconds
    /\ metro.isCountingIn => SecondsIntervals(metro) = {}

C7_TimerStarts ==
  (TimerActive /\ ~Running(metro) /\ Running(metro') /\ ~metro'.stackOverflow) =>
    /\ metro'.elapsedSeconds = 0
    /\ {t.id : t \in SecondsIntervals(metro')} = {metro'.timerIntervalRef}

C7_TimerExpires ==
  (TimerActive /\ metroEvent'.op = "secondsTick") =>
    IF metro.elapsedSeconds + 1 >= metroOpts.timer.durationSeconds
      THEN /\ ~metro'.isPlaying
           /\ metro'.intervals = {}
           /\ metro'.intervalRef = Null /\ metro'.timerIntervalRef = Null
           /\ metro'.elapsedSeconds = 0
           /\ metro'.completes >= 1
      ELSE /\ metro'.elapsedSeconds = metro.elapsedSeconds + 1
           /\ metro'.intervals = metro.intervals
           /\ metro'.isPlaying = metro.isPlaying

C7_TimerKeepsCounting ==
  (TimerActive /\ metroEvent'.op \in {"tick", "setBpm"} /\ metro'.isPlaying) =>
    /\ metro'.elapsedSeconds = metro.elapsedSeconds
    /\ SecondsIntervals(metro') = SecondsIntervals(metro)

C7_TimerStep == C7_TimerStarts /\ C7_TimerExpires /\ C7_TimerKeepsCounting

\* C7: with the timer enabled and durationSeconds = D > 0, the 1 Hz counter starts when
\* Running is entered and not during the count-in; elapsedSeconds stays below D; the
\* firing that reaches D stops the engine (isPlaying false, no interval of either kind
\* left, elapsedSeconds 0) and calls onComplete, whatever the speed trainer does; a beat
\* tick (tempo bump included) or a setBpm that leaves the engine playing does not touch
\* the counter.
C7_Timer == [](C7_TimerState) /\ [][C7_TimerStep]_vars

\* The same statement for the runs that do not unfold inside startInterval.
C7_TimerOtherwise ==
  [](RunCompletesAtOnce \/ C7_TimerState) /\ [][RunCompletesAtOnce \/ C7_TimerStep]_vars

SpecClamp(x) == IF x < 20 THEN 20 ELSE IF x > 300 THEN 300 ELSE x

\* C8: setBpm(x) sets bpm to clamp(x, 20, 300); it restarts the beat interval at that
\* tempo, clicking at once the beat index that was due next, iff the engine is Running
\* (playing, not counting in) with the speed trainer not enabled; in every other state
\* the intervals, the beat index and every other part of the engine stay as they were.
C8_SetBpmStep ==
  metroEvent'.op = "setBpm" =>
    LET c == SpecClamp(metroEvent'.arg)
        running == metro.isPlaying /\ ~metro.isCountingIn
    IN /\ metro'.bpm = c /\ metro'.bpmRef = c /\ metro'.bpmCalls = <<c>>
       /\ (running /\ ~metroOpts.speedTrainer.enabled) =>
            /\ BeatIntervals(metro') =
                 {[id |-> metro'.intervalRef, kind |-> "beat", bpm |-> c, remaining |-> 0]}
            /\ Len(metro'.clicks) = 1
            /\ metro'.clicks[1].value = metro.currentBeatRef
            /\ metro'.currentBeat = metro.currentBeatRef
            /\ metro'.currentBeatRef = (metro.currentBeatRef + 1) % metroOpts.beatsPerMeasure
            /\ SecondsIntervals(metro') = SecondsIntervals(metro)
       /\ ~(running /\ ~metroOpts.speedTrainer.enabled) =>
            metro' = [metro EXCEPT !.bpm = c, !.bpmRef = c, !.bpmCalls = <<c>>,
                                   !.clicks = <<>>]

C8_SetBpm == [][C8_SetBpmStep]_vars

C8_Witness ==
  /\ metroEvent = [op |-> "setBpm", arg |-> 400]
  /\ metro.bpm = 300
  /\ metro.isPlaying /\ ~metro.isCountingIn
  /\ metro.clicks = <<[type |-> "normal", value |-> 1]>>
  /\ metro.currentBeatRef = 2
  /\ BeatIntervals(metro) = {[id |-> metro.intervalRef, kind |-> "beat", bpm |-> 300,
                              remaining |-> 0]}

(***************************************************************************)
(* Claims: useDrumEngine                                                   *)
(***************************************************************************)
PendingPlays(m) == BagCardinality(m.plays)

\* What stop() leaves behind.
DrumStopped(m) ==
  /\ m.intervalRef = Null
  /\ m.intervals = {}
  /\ m.playbackStateRef = <<>>
  /\ m.cursor = <<>>
  /\ ~m.isPlaying

C1_StopStep == drumEvent'.op = "stop" => (drum.isPlaying /\ DrumStopped(drum'))

C1_AfterStopStep ==
  (drumEvent.op = "stop" /\ drumEvent'.op # "play") =>
    (drum'.scheduled = <<>> /\ ~drum'.started /\ DrumStopped(drum'))

\* C1: stop() called while playing leaves no live scheduler interval, a null playback state,
\* a null cursor and isPlaying false; and the operation that follows it, unless it is a
\* play() call, schedules no step and leaves the engine so stopped.
C1_Stop == [][C1_StopStep /\ C1_AfterStopStep]_vars

\* The same statement for the stop() calls made while no play() call is awaiting and no
\* interval other than intervalRef's is live.
C1_StopOtherwise ==
  [][(PendingPlays(drum) = 0 /\ drum.intervals \subseteq {drum.intervalRef})
        => C1_StopStep]_vars
  /\ [][(PendingPlays(drum) = 0 /\ drum.intervals = {}) => C1_AfterStopStep]_vars

\* C2: play() on a project without tracks sets the error to the guidance message and changes
\* nothing else: no audio context is created or resumed, no sample requested, no playback
\* state or interval created, and isPlaying is false before and after.
C2_PlayWithoutTracksStep ==
  (drumEvent'.op = "play" /\ Len(drumProject.tracks) = 0) =>
    /\ drum'.error = GuidanceError
    /\ ~drum.isPlaying /\ ~drum'.isPlaying
    /\ drum'.audioContextRef = drum.audioContextRef
    /\ drum'.audioState = drum.audioState
    /\ PendingPlays(drum') = PendingPlays(drum)
    /\ {[pc |-> c.pc, pending |-> c.pending] : c \in BagToSet(drum'.plays)}
         = {[pc |-> c.pc, pending |-> c.pending] : c \in BagToSet(drum.plays)}
    /\ drum'.orphans = drum.orphans
    /\ drum'.sampleBufferCacheRef = drum.sampleBufferCacheRef
    /\ drum'.isBuffering = drum.isBuffering
    /\ drum'.playbackStateRef = drum.playbackStateRef
    /\ drum'.cursor = drum.cursor
    /\ drum'.intervals = drum.intervals /\ drum'.intervalRef = drum.intervalRef
    /\ drum'.scheduled = <<>> /\ ~drum'.started

C2_PlayWithoutTracks == [][C2_PlayWithoutTracksStep]_vars

C2_Witness ==
  /\ drumEvent.op = "play"
  /\ drumProject = EmptyProject
  /\ drum.error = GuidanceError
  /\ ~drum.audioContextRef /\ drum.audioState = "none"
  /\ ~drum.isPlaying /\ drum.playbackStateRef = <<>> /\ drum.intervals = {}

\* C3: when a sample request of a play() call fails (response not ok, or decoding rejected),
\* the error becomes that failure's message, the call schedules no step and installs no
\* interval, and after it isPlaying is false, isBuffering is false and the playback state
\* is null.
C3_FetchFailureStep ==
  (drumEvent'.op = "fetchSettles" /\ drumEvent'.outcome # "ok") =>
    /\ drumEvent'.outcome = "notOk" =>
         drum'.error = [kind |-> "Failed to load sample: ", path |-> drumEvent'.path]
    /\ drumEvent'.outcome = "decodeError" =>
         drum'.error = [kind |-> "decodeAudioData rejected", path |-> ""]
    /\ drum'.scheduled = <<>> /\ ~drum'.started
    /\ drum'.intervals \subseteq drum.intervals /\ drum'.intervalRef = Null
    /\ ~drum'.isPlaying
    /\ ~drum'.isBuffering
    /\ drum'.playbackStateRef = <<>>
    /\ PendingPlays(drum') = PendingPlays(drum) - 1

C3_FetchFailure == [][C3_FetchFailureStep]_vars

C3_Witness ==
  /\ drumEvent.op = "fetchSettles" /\ drumEvent.outcome = "notOk"
  /\ drumEvent.path = "snare.wav"
  /\ drum.sampleBufferCacheRef = {"kick.wav"}
  /\ drum.error = [kind |-> "Failed to load sample: ", path |-> "snare.wav"]
  /\ ~drum.isPlaying /\ ~drum.isBuffering /\ drum.playbackStateRef = <<>>
  /\ drum.failures = 1

\* C4: after a play() call has failed on a sample request, a play() call is not blocked
\* (it clears the error and either runs to its end or awaits), the last successful request
\* of an awaiting call ends the call, and a call that runs to its end starts playback:
\* isPlaying true, a fresh playback state, step 0 of section 0 scheduled first, an interval
\* installed, and the error null unless another play() call has set it in the meantime.
C4_RetryStep ==
  drum.failures > 0 =>
    /\ (drumEvent'.op = "play" /\ Len(drumProject.tracks) > 0) =>
         /\ ~drum.isPlaying
         /\ drum'.error = NoError
         /\ drum'.started \/ PendingPlays(drum') = PendingPlays(drum) + 1
    /\ (drumEvent'.op = "fetchSettles" /\ drumEvent'.outcome = "ok"
          /\ PendingPlays(drum') < PendingPlays(drum)) => drum'.started
    /\ drum'.started =>
         /\ drum'.isPlaying
         /\ drum'.playbackStateRef # <<>>
         /\ drum'.scheduled # <<>>
         /\ drum'.scheduled[1].sectionIndex = 0 /\ drum'.scheduled[1].stepIndex = 0
         /\ drum'.scheduled[1].loop = 1 /\ drum'.scheduled[1].ahead = MIN_NOTE_AHEAD_MS
         /\ drum'.intervalRef \in drum'.intervals /\ drum'.intervalRef \notin drum.intervals
         /\ ~drumEvent'.errorSetSince => drum'.error = NoError

C12_Debounce ==
  (tunerEvent.op = "audioprocess" /\ tunerEvent.surfaced) =>
     tunerEvent.previous = tunerEvent.window

\* C13: the detector returns 0 for every buffer whose RMS is below the silence threshold.
C13_SilenceGuard ==
  (pitch.frequency # Null /\ RmsBelowThreshold(pitch.buffer)) => pitch.frequency = 0

(***************************************************************************)
(* Claims: useDrumEngine, the scheduler                                    *)
(***************************************************************************)
\* The note-start events (source.start calls) of the last operation, with their start
\* times relative to the audio clock.
NoteStarts == UNION {drum.scheduled[i].starts : i \in DOMAIN drum.scheduled}

\* C14 as stated: every note-start event has a start time at least LOOKAHEAD (120 ms)
\* later than the audio clock's value at the moment it is scheduled.
C14_QueuedAheadByLookahead == \A s \in NoteStarts : s.at >= LOOKAHEAD_MS

\* C14 as amended: every note-start event has a start time at least 1 ms later than the
\* audio clock's value at the moment it is scheduled, and the step it belongs to is
\* scheduled when its event time is less than LOOKAHEAD ahead of the clock.
C14_QueuedAhead ==
  /\ \A s \in NoteStarts : s.at >= MIN_START_AHEAD_MS
  /\ \A i \in DOMAIN drum.scheduled : drum.scheduled[i].ahead < LOOKAHEAD_MS

\* An overdue step: its note is started at the clamp, 1 ms ahead of the clock.
C14_Witness ==
  /\ drumEvent.op = "schedulerTick"
  /\ \E i \in DOMAIN drum.scheduled :
       /\ drum.scheduled[i].ahead < 0
       /\ \E s \in drum.scheduled[i].starts : s.at = MIN_START_AHEAD_MS

\* C15: while playing, a scheduler tick publishes the cursor snapshot (setCursor) exactly
\* once; scheduleStep publishes it once for each step it schedules.
C15_CursorOncePerTick ==
  (drumEvent.op = "schedulerTick" /\ drum.isPlaying) => Len(drum.scheduled) = 1

\* C16: whatever edits the page makes to the project while the engine plays, a scheduler
\* tick finds a section at the playback state's sectionIndex and does not throw.
C16_SectionDefined == drumEvent.op = "schedulerTick" => ~drum.tickThrew

\* C17 (first part): a play() call that runs to its end schedules, as its first step, step 0
\* of section 0 in repeat 0 of loop 1, 40 ms ahead of the audio clock, whatever the
\* playback state was before.
C17_FreshStartStep ==
  drum'.started =>
    /\ drum'.scheduled # <<>>
    /\ drum'.scheduled[1].sectionIndex = 0
    /\ drum'.scheduled[1].stepIndex = 0
    /\ drum'.scheduled[1].repeatIndex = 0
    /\ drum'.scheduled[1].loop = 1
    /\ drum'.scheduled[1].ahead = MIN_NOTE_AHEAD_MS

\* C17 (second part): from a stop() to the next call of play() no playback state exists.
C17_NoStateWhileStopped == drum.stopped => drum.playbackStateRef = <<>>

\* C17: every successful play() starts from a fresh playback state, and between stop()
\* and the next play() no playback state exists.
C17_FreshPlay == [][C17_FreshStartStep]_vars /\ [](C17_NoStateWhileStopped)

\* The first part alone.
C17_FreshStart == [][C17_FreshStartStep]_vars

(***************************************************************************)
(* Claims: useMetronome, the speed trainer                                 *)
(***************************************************************************)
\* The engine at rest: nothing playing, nothing displayed, no interval left.
MetroIdle(m) ==
  /\ ~m.isPlaying
  /\ m.currentBeat = -1
  /\ m.elapsedSeconds = 0
  /\ m.speedTrainerState = NoTrainerState
  /\ m.intervalRef = Null
  /\ m.timerIntervalRef = Null
  /\ m.intervals = {}

\* The step ran the completion branch of tick (loop count exceeded, onComplete fired).
TrainerCompletes ==
  /\ ~metro'.stackOverflow
  /\ \/ metroEvent'.op = "play" /\ metro'.completes > 0
     \/ metroEvent'.op \in {"tick", "countInTick"} /\ metro'.completes > metro.completes

C18_CompletionStep == TrainerCompletes => MetroIdle(metro')

C18_StaysIdleStep ==
  (MetroIdle(metro) /\ metro.completes > 0 /\ metroEvent'.op # "play") => MetroIdle(metro')

\* C18: once the finite loop count of the speed trainer is exceeded the engine is Idle
\* (isPlaying false, currentBeat -1, elapsedSeconds 0, speedTrainerState null, beat
\* interval and 1 Hz interval cancelled) and stays Idle until play() is called, for every
\* beatsPerMeasure >= 1 and repeatsPerLoop >= 1.
C18_Completion == [][C18_CompletionStep /\ C18_StaysIdleStep]_vars

\* The same statement for the configurations in which a measure is more than one tick or
\* a loop more than one measure.
C18_CompletionOtherwise ==
  [][~RunCompletesAtOnce => (C18_CompletionStep /\ C18_StaysIdleStep)]_vars

\* The tempo after a number of loop ends, each adding the increment and clamping.
RECURSIVE BumpedTimes(_, _, _)
BumpedTimes(bpm, increment, times) ==
  IF times <= 0 THEN bpm ELSE BumpedTimes(SpecClamp(bpm + increment), increment, times - 1)

\* The step begins a run: startMetronome resets the trainer to loop 1 at bpmRef.
StartsRun ==
  \/ metroEvent'.op = "play" /\ metroOpts.countIn = 0
  \/ metroEvent'.op = "countInTick" /\ metro.isCountingIn /\ ~metro'.isCountingIn

\* C19 (state part): bpm and the trainer's currentBpm are within [20, 300].
C19_TempoState ==
  /\ metro.bpm >= 20 /\ metro.bpm <= 300
  /\ metro.speedTrainerRef.currentBpm >= 20 /\ metro.speedTrainerRef.currentBpm <= 300
  /\ metro.speedTrainerState # NoTrainerState =>
       (metro.speedTrainerState.currentBpm >= 20 /\ metro.speedTrainerState.currentBpm <= 300)

\* C19 (step part): a step in which loops end leaves currentBpm at the tempo it had (bpmRef
\* when the step begins the run) bumped by the increment and clamped once for every
\* non-final loop that ended; when such a loop ended and the run goes on, the only beat
\* interval is intervalRef's, its period is 60000 / currentBpm, and the last click of the
\* step, the first at that tempo, is beat 0.
C19_TempoStep ==
  (/\ metroOpts.speedTrainer.enabled
   /\ metroEvent'.op \in {"play", "countInTick", "tick"}
   /\ ~metro'.stackOverflow) =>
    LET base == IF StartsRun THEN [currentBpm |-> metro.bpmRef, currentLoop |-> 1]
                ELSE [currentBpm |-> metro.speedTrainerRef.currentBpm,
                      currentLoop |-> metro.speedTrainerRef.currentLoop]
        ended == metro'.speedTrainerRef.currentLoop - base.currentLoop
        bumps == IF TrainerCompletes THEN ended - 1 ELSE ended
    IN /\ metro'.speedTrainerRef.currentBpm =
            BumpedTimes(base.currentBpm, metroOpts.speedTrainer.bpmIncrement, bumps)
       /\ (bumps > 0 /\ ~TrainerCompletes) =>
            /\ BeatIntervals(metro') =
                 {[id |-> metro'.intervalRef, kind |-> "beat",
                   bpm |-> metro'.speedTrainerRef.currentBpm, remaining |-> 0]}
            /\ metro'.clicks # <<>>
            /\ metro'.clicks[Len(metro'.clicks)].value = 0
            /\ metro'.clicks[Len(metro'.clicks)].type = "downbeat"
            /\ metro'.currentBeat = 0

\* C19: at the end of each non-final loop currentBpm becomes clamp(currentBpm +
\* bpmIncrement, 20, 300), the beat interval then in force has period 60000 / currentBpm,
\* the first click at the new tempo is beat 0, and bpm and currentBpm are always within
\* [20, 300].
C19_Tempo == [](C19_TempoState) /\ [][C19_TempoStep]_vars

\* The loop end that takes 295 bpm to the clamp at 300.
C19_Witness ==
  /\ metroEvent.op = "tick"
  /\ metroOpts.bpm = 295
  /\ metroOpts.beatsPerMeasure > 1
  /\ metro.speedTrainerRef = [currentBpm |-> 300, currentLoop |-> 2, currentRepeat |-> 1]
  /\ metro.clicks[Len(metro.clicks)] = [type |-> "downbeat", value |-> 0]
  /\ BeatIntervals(metro) = {[id |-> metro.intervalRef, kind |-> "beat", bpm |-> 300,
                              remaining |-> 0]}

(***************************************************************************)
(* Claims: the drum looper page                                            *)
(***************************************************************************)
SectionWithinBounds(section) ==
  /\ section.bars >= 1 /\ section.bars <= 16
  /\ section.beatsPerBar >= 1 /\ section.beatsPerBar <= 32
  /\ section.stepsPerBeat >= 1 /\ section.stepsPerBeat <= 8
  /\ section.repeats >= 1
  /\ section.swing >= 0 /\ section.swing <= 75

\* C20: every project the editor's mutations reach has at least one section, and bars in
\* [1,16], beatsPerBar in [1,32], stepsPerBeat in [1,8], repeats >= 1, swing in [0,0.75]
\* in every section, and bpm in [20,300].
C20_DataModelBounds ==
  /\ Len(editor.sections) >= 1
  /\ \A i \in DOMAIN editor.sections : SectionWithinBounds(editor.sections[i])
  /\ editor.bpm >= 20 /\ editor.bpm <= 300

(***************************************************************************)
(* Claims: the shared URL state                                            *)
(***************************************************************************)
\* C21: decodeProjectFromState returns null for an undefined or empty state, for a string
\* that does not decompress, for decompressed text that is not JSON, and for JSON that
\* fails the project schema (bpm 1000 for one); in each of these cases the page starts
\* from the default project, with the warning whenever the state string was not empty.
C21_DecodeFailures ==
  urlState.op = "open" =>
    LET state == urlState.state
        fails == \/ Falsy(state)
                 \/ state.text = <<>>
                 \/ ~state.text[1].json
                 \/ ~projectAccepted(state.text[1].value[1])
                 \/ /\ Has(state.text[1].value[1], "bpm")
                    /\ state.text[1].value[1].bpm = Thousandths(1000)
    IN fails =>
         /\ urlState.decoded = <<>>
         /\ urlState.page.fromDefault
         /\ urlState.page.error = IF Falsy(state) THEN "null" ELSE CouldNotParse

C21_Witness ==
  /\ urlState.op = "open"
  /\ urlState.state = encodeProjectToState([sampleProject EXCEPT !.bpm = Thousandths(1000)])
  /\ urlState.decoded = <<>>
  /\ urlState.page.fromDefault
  /\ urlState.page.error = CouldNotParse

\* A value of type DrumProject that the schema accepts.
IsValidDrumProject(p) ==
  /\ DOMAIN p = DOMAIN sampleProject
  /\ \A i \in DOMAIN p.tracks : DOMAIN p.tracks[i] = DOMAIN SampleTrack
  /\ \A i \in DOMAIN p.sections : DOMAIN p.sections[i] = DOMAIN SampleSection
  /\ projectAccepted(p)

GroupStart(subdivision, i) == SumSeq(SubSeq(subdivision, 1, i - 1))

\* C23: the accent beats of a subdivision are the starting offsets of its groups
\* ([3,3] gives [0,3], [2,2,2] gives [0,2,4]); the click of beat b is 'downbeat' iff b = 0,
\* 'accent' iff b # 0 and b is an accent beat, and 'normal' otherwise.
C23_ClickTimbre ==
  /\ metroPage.accentBeats # <<>> =>
       LET accents == metroPage.accentBeats[1]
       IN /\ Len(accents) = Len(metroPage.subdivision)
          /\ \A i \in DOMAIN accents : accents[i] = GroupStart(metroPage.subdivision, i)
          /\ metroPage.subdivision = <<3, 3>> => accents = <<0, 3>>
          /\ metroPage.subdivision = <<2, 2, 2>> => accents = <<0, 2, 4>>
  /\ metroPage.click # <<>> =>
       LET beat == metroPage.click[1].beat
           type == metroPage.click[1].type
           isAccent == \E i \in DOMAIN metroPage.subdivision :
                         beat = GroupStart(metroPage.subdivision, i)
       IN /\ type \in {"downbeat", "accent", "normal"}
          /\ type = "downbeat" <=> beat = 0
          /\ type = "accent" <=> (beat # 0 /\ isAccent)

C23_Witness ==
  /\ metroPage.subdivision = <<2, 2, 2>>
  /\ metroPage.accentBeats = <<<<0, 2, 4>>>>
  /\ metroPage.click = <<[beat |-> 4, type |-> "accent"]>>

\* C24: getTempoName gives every integer bpm in [20,300] the name of the one tempo marking
\* whose range holds it (no gap, no overlap), 24 -> Larghissimo, 25 -> Grave,
\* 120 -> Moderato, and the empty string to a bpm outside [20,300].
C24_TempoName ==
  metroPage.tempoName # <<>> =>
    LET bpm == metroPage.bpm
        name == metroPage.tempoName[1]
        holding == {i \in DOMAIN TEMPO_MARKINGS :
                      TEMPO_MARKINGS[i].minBpm <= bpm /\ bpm <= TEMPO_MARKINGS[i].maxBpm}
    IN /\ bpm \in 20..300 =>
            /\ Cardinality(holding) = 1
            /\ \A i \in holding : name = TEMPO_MARKINGS[i].name
            /\ name # ""
       /\ bpm \notin 20..300 => name = ""
       /\ bpm = 24 => name = "Larghissimo"
       /\ bpm = 25 => name = "Grave"
       /\ bpm = 120 => name = "Moderato"

C24_Witness ==
  /\ metroPage.bpm = 24
  /\ metroPage.tempoName = <<"Larghissimo">>

(***************************************************************************)
(* Claims: useDrumEngine, the lookahead loop and the cursor                *)
(***************************************************************************)
\* A scheduler tick has run on a playback state: an interval's, or the one play() runs.
TickRan == drumEvent'.op = "schedulerTick" /\ drum.playbackStateRef # <<>>

C25_LookaheadStep ==
  TickRan =>
    /\ ~drum'.tickThrew
    /\ \A i \in DOMAIN drum'.scheduled : drum'.scheduled[i].ahead < LOOKAHEAD_MS
    /\ drum'.playbackStateRef # <<>>
    /\ drum'.playbackStateRef[1].ahead >= LOOKAHEAD_MS
    /\ drum.playbackStateRef[1].ahead - drumEvent'.delay < LOOKAHEAD_MS
         => drum'.scheduled # <<>>

\* C25: each scheduler tick terminates without error, schedules a step only if its nominal
\* time was less than LOOKAHEAD ahead of the audio clock when tested, and ends with
\* nextNoteTime at least LOOKAHEAD ahead of the audio clock, also after a delay of more
\* than the lookahead, when every overdue step is scheduled within the one tick.
C25_LookaheadLoop == [][C25_LookaheadStep]_vars

\* The same statement for the ticks that find the section of the playback state in the
\* project.
C25_LookaheadLoopOtherwise ==
  [][drum.playbackStateRef # <<>>
       /\ drum.playbackStateRef[1].sectionIndex < Len(drumProject.sections)
       => C25_LookaheadStep]_vars

\* A tick that ran more than the lookahead late and scheduled several overdue steps.
C25_LateTick ==
  /\ drumEvent.op = "schedulerTick" /\ drumEvent.delay > LOOKAHEAD_MS
  /\ Len(drum.scheduled) >= 3
  /\ drum.scheduled[1].ahead < 0
  /\ drum.playbackStateRef # <<>> /\ drum.playbackStateRef[1].ahead >= LOOKAHEAD_MS

\* The playback states before and after each advance of the operation that ran last: a
\* scheduled step with the step scheduled after it, the last one with the playback state.
AdvancesOf(m) ==
  {<<m.scheduled[i],
     IF i < Len(m.scheduled) THEN m.scheduled[i + 1] ELSE m.playbackStateRef[1]>> :
     i \in DOMAIN m.scheduled}

\* What an advance does besides setting the step index to next.
AdvancedTo(project, before, after, next, reached(_, _)) ==
  LET section == project.sections[before.sectionIndex + 1]
      wrapped == next = 0
      repeat == IF wrapped THEN before.repeatIndex + 1 ELSE before.repeatIndex
      sectionEnds == wrapped /\ reached(repeat, section.repeats)
  IN /\ after.stepIndex = next
     /\ after.repeatIndex = IF sectionEnds THEN 0 ELSE repeat
     /\ after.sectionIndex = IF sectionEnds
                               THEN (before.sectionIndex + 1) % Len(project.sections)
                               ELSE before.sectionIndex
     /\ after.loop = IF sectionEnds THEN before.loop + 1 ELSE before.loop
     /\ after.ahead = before.ahead + (MS_PER_MINUTE \div project.bpm) \div section.stepsPerBeat

\* With the cursor within the section (as it is while the project stays the same), the
\* section ends exactly with its step number repeats * stepCount.
ExactlyRepeatsTimesSteps(project, before, after) ==
  LET section == project.sections[before.sectionIndex + 1]
      n == getStepCount(section)
      played == before.repeatIndex * n + before.stepIndex + 1
  IN (before.stepIndex < n /\ before.repeatIndex < section.repeats) =>
       IF played = section.repeats * n
         THEN after.repeatIndex = 0 /\ after.stepIndex = 0 /\ after.loop = before.loop + 1
         ELSE /\ after.sectionIndex = before.sectionIndex /\ after.loop = before.loop
              /\ after.repeatIndex * n + after.stepIndex = played

C26_ModuloStep ==
  \A pair \in AdvancesOf(drum') :
    LET n == getStepCount(drumProject.sections[pair[1].sectionIndex + 1])
    IN /\ AdvancedTo(drumProject, pair[1], pair[2], (pair[1].stepIndex + 1) % n,
                     LAMBDA repeat, repeats : repeat = repeats)
       /\ ExactlyRepeatsTimesSteps(drumProject, pair[1], pair[2])

C26_WrapStep ==
  \A pair \in AdvancesOf(drum') :
    LET n == getStepCount(drumProject.sections[pair[1].sectionIndex + 1])
    IN /\ AdvancedTo(drumProject, pair[1], pair[2],
                     IF pair[1].stepIndex + 1 < n THEN pair[1].stepIndex + 1 ELSE 0,
                     LAMBDA repeat, repeats : repeat >= repeats)
       /\ ExactlyRepeatsTimesSteps(drumProject, pair[1], pair[2])

Audible(project, track) ==
  IF \E i \in DOMAIN project.tracks : project.tracks[i].solo
    THEN track.solo /\ ~track.mute
    ELSE ~track.mute

\* The tracks that sound in a step of a section, given the cached sample paths.
Sounding(project, section, stepIndex, cached) ==
  {i \in DOMAIN project.tracks :
     /\ Audible(project, project.tracks[i])
     /\ project.tracks[i].id \in DOMAIN section.pattern
     /\ stepIndex \in section.pattern[project.tracks[i].id]
     /\ project.tracks[i].samplePath \in cached}

C27_AudibilityStep ==
  /\ \A k \in DOMAIN drum'.scheduled :
       LET step == drum'.scheduled[k]
           section == drumProject.sections[step.sectionIndex + 1]
           sounding == Sounding(drumProject, section, step.stepIndex,
                                drum'.sampleBufferCacheRef)
       IN /\ {s.track : s \in step.starts} = {drumProject.tracks[i].id : i \in sounding}
          /\ Cardinality(step.starts) = Cardinality(sounding)
  /\ drum'.scheduled # <<>> =>
       /\ ~drum'.tickThrew
       /\ \A pair \in AdvancesOf(drum') : pair[2].ahead > pair[1].ahead
       /\ drum'.cursor # <<>>
       /\ drum'.cursor[1].stepIndex = drum'.scheduled[Len(drum'.scheduled)].stepIndex

\* C27: for every scheduled step a sample source is started for a track exactly when the
\* track is audible (with a solo present: solo and not muted; otherwise: not muted), the
\* step index is in the track's pattern entry (no entry: inactive) and a buffer for its
\* sample path is cached; a track without a cached buffer is skipped without error and
\* the cursor still advances.
C27_Audibility == [][C27_AudibilityStep]_vars

\* A step of HatMix scheduled while hat.wav is not cached: the snare sounds, the hat is
\* skipped.
C27_Witness ==
  /\ drumProject = HatMix
  /\ "hat.wav" \notin drum.sampleBufferCacheRef
  /\ drum.scheduled # <<>>
  /\ drum.scheduled[1].stepIndex = 0
  /\ {s.track : s \in drum.scheduled[1].starts} = {"snare-1"}
  /\ ~drum.tickThrew
  /\ drum.playbackStateRef # <<>> 

\* A step of SoloMix: the soloed kick alone sounds, the muted solo hat and the snare do not.
C27_SoloWitness ==
  /\ drumProject = SoloMix
  /\ drum.sampleBufferCacheRef = {"kick.wav", "hat.wav"}
  /\ drum.scheduled # <<>>
  /\ {s.track : s \in drum.scheduled[1].starts} = {"kick-1"}

(***************************************************************************)
(* Claims: useDrumEngine, the project of a tick                            *)
(***************************************************************************)
C28_SnapshotStep ==
  \A k \in DOMAIN drum'.scheduled :
    /\ drum'.scheduled[k].scheduledWith = <<drumProject>>
    /\ drum'.scheduled[k].advancedWith = <<drumProject>>
    /\ \A j \in DOMAIN drum'.scheduled :
         /\ drum'.scheduled[j].scheduledWith = drum'.scheduled[k].scheduledWith
         /\ drum'.scheduled[j].advancedWith = drum'.scheduled[k].scheduledWith

TrackOf(project, id) ==
  project.tracks[CHOOSE i \in DOMAIN project.tracks : project.tracks[i].id = id]

\* The swing offset of a step, in ms: half the swing share of a step for an odd step.
SwingOf(project, section, stepIndex) ==
  IF stepIndex % 2 = 1 /\ section.swingPct > 0
    THEN (((MS_PER_MINUTE \div project.bpm) \div section.stepsPerBeat) * section.swingPct)
           \div 200
    ELSE 0

C29_NudgeClampStep ==
  \A k \in DOMAIN drum'.scheduled :
    LET step == drum'.scheduled[k]
        section == drumProject.sections[step.sectionIndex + 1]
    IN \A s \in step.starts :
         LET nudged == step.ahead + SwingOf(drumProject, section, step.stepIndex)
                         + TrackOf(drumProject, s.track).nudgeMs
         IN /\ s.at = IF nudged > 1 THEN nudged ELSE 1
            /\ s.at >= 1

\* C29: every source start time equals max(audio clock + 0.001, nextNoteTime + swing offset
\* + nudgeMs / 1000), so none precedes the audio clock + 0.001 at the moment of scheduling,
\* for nudges of -80, 0 and 80 ms and ticks that run on time or late.
C29_NudgeClamp == [][C29_NudgeClampStep]_vars

\* An overdue step whose track is nudged by -80 ms: its source starts at the clock + 0.001;
\* and a source that a nudge of 80 ms moved behind its step.
C29_Witness ==
  /\ drumEvent.op = "schedulerTick" /\ drumEvent.delay > LOOKAHEAD_MS
  /\ \E k \in DOMAIN drum.scheduled :
       /\ drum.scheduled[k].ahead < 0
       /\ \E s \in drum.scheduled[k].starts :
            /\ TrackOf(drumProject, s.track).nudgeMs = -80
            /\ s.at = 1
  /\ \E k \in DOMAIN drum.scheduled :
       \E s \in drum.scheduled[k].starts :
         /\ TrackOf(drumProject, s.track).nudgeMs = 80
         /\ s.at = drum.scheduled[k].ahead + 80

(***************************************************************************)
(* Claims: getSwingOffsetSeconds                                           *)
(***************************************************************************)
\* C30: getSwingOffsetSeconds is 0 for every even step index and for swing <= 0, and
\* stepDuration * swing * 0.5 for every odd step index, for all swing in [0, 0.75]; the
\* offset is at most 37.5% of a step, so a swung step comes before the nominal time of the
\* step after it.  (The offset is held in two-hundredths, the swing in hundredths.)
C30_SwingOffset ==
  swingCall.offset # <<>> =>
    LET offset == swingCall.offset[1]
        duration == swingCall.stepDuration
    IN /\ (swingCall.stepIndex % 2 = 0 \/ swingCall.swingPct <= 0) => offset = 0
       /\ (swingCall.stepIndex % 2 = 1 /\ swingCall.swingPct \in 0..75) =>
            /\ offset = duration * swingCall.swingPct
            /\ 1000 * offset <= 375 * 200 * duration
            /\ offset < 200 * duration

C30_Witness ==
  /\ swingCall.stepIndex = 3
  /\ swingCall.swingPct = 75
  /\ swingCall.stepDuration = 125
  /\ swingCall.offset = <<9375>>

(***************************************************************************)
(* Claims: useMetronome, the clicks of a beat-timer firing                 *)
(***************************************************************************)
IsBeatClick(c) == c.type # "countIn"

\* The beat clicks of a run follow each other as b, (b + 1) mod beatsPerMeasure.
C31_BeatSequence ==
  \A i \in 1..(Len(metro.runLog) - 1) :
    (IsBeatClick(metro.runLog[i]) /\ IsBeatClick(metro.runLog[i + 1])) =>
      metro.runLog[i + 1].value = (metro.runLog[i].value + 1) % metroOpts.beatsPerMeasure

\* A firing of the beat interval produces exactly one click.
C31_FiringStep == metroEvent'.op = "tick" => Len(metro'.clicks) = 1

\* The firing ends a loop of the speed trainer that is not the last one: the tempo is bumped.
FiringBumpsTempo ==
  /\ metroEvent'.op = "tick"
  /\ metro'.speedTrainerRef.currentBpm # metro.speedTrainerRef.currentBpm
       \/ metro'.speedTrainerRef.currentLoop >
            metro.speedTrainerRef.currentLoop + (metro'.completes - metro.completes)

\* C31: every firing of the beat timer produces exactly one click, the firing in which the
\* speed trainer bumps the tempo included, and consecutive beat clicks of a run carry the
\* indices b and (b + 1) mod beatsPerMeasure.
C31_OneClickPerFiring == [](C31_BeatSequence) /\ [][C31_FiringStep]_vars

\* The same statement for the firings that do not bump the tempo.
C31_OneClickOtherwise ==
  [](C31_BeatSequence) /\ [][FiringBumpsTempo \/ C31_FiringStep]_vars

\* A firing that bumps the tempo has clicked the last beat of the measure and, inside the
\* same callback, the downbeat of the next measure.
C31_BumpFiring ==
  /\ metroEvent.op = "tick"
  /\ metroOpts.beatsPerMeasure = 2
  /\ metro.clicks = <<[type |-> "normal", value |-> 1], [type |-> "downbeat", value |-> 0]>>

(***************************************************************************)
(* Claims: useMetronome, stop() and pause()                                *)
(***************************************************************************)
\* Idle as stop() is to leave it: nothing playing or counting in, nothing displayed, no
\* interval of either kind left.
StoppedIdle(m) ==
  /\ MetroIdle(m)
  /\ ~m.isCountingIn
  /\ m.countInRemaining = 0

\* stop()/pause() yields Idle and leaves bpm as it was.
C32_StopStep ==
  metroEvent'.op = "pause" => (StoppedIdle(metro') /\ metro'.bpm = metro.bpm)

\* From Idle, whatever is not play() produces no click, no beat callback and no onComplete,
\* and leaves the engine Idle.
C32_SilentStep ==
  (StoppedIdle(metro) /\ metroEvent'.op # "play") =>
    /\ StoppedIdle(metro')
    /\ metro'.clicks = <<>>
    /\ metro'.completes = metro.completes
    /\ metroEvent'.op \notin {"tick", "countInTick", "secondsTick"}

C32_StopYieldsIdleOtherwise ==
  [][RunCompletesAtOnce \/ (C32_StopStep /\ C32_SilentStep)]_vars

C32_RunningWitness ==
  /\ metroEvent.op = "pause"
  /\ metroOpts.speedTrainer.enabled /\ TimerActive
  /\ metro.speedTrainerRef.currentLoop = 2
  /\ RunBeats >= 3
  /\ StoppedIdle(metro)

(***************************************************************************)
(* Claims: useDrumEngine, overlapping play() calls                         *)
(***************************************************************************)
\* At most one scheduler interval is live.
C33_OneTimerState == Cardinality(drum.intervals) <= 1

\* stop() cancels every interval that play() installed.
C33_StopCancelsStep == drumEvent'.op = "stop" => drum'.intervals = {}

\* C33: at most one scheduler interval timer exists at any time, also when play() or
\* toggle() is invoked again while an earlier play() is awaiting the audio context or the
\* sample buffers, so that a single stop() cancels every timer play() installed.
C33_OneTimer == [](C33_OneTimerState) /\ [][C33_StopCancelsStep]_vars

\* Intervals are installed only by a play() call that runs to its end, and such a call
\* leaves one interval when none was live before it.
C33_OneTimerOtherwise ==
  /\ [][~drum'.started => drum'.intervals \subseteq drum.intervals]_vars
  /\ [][(drum'.started /\ drum.intervals = {}) => drum'.intervals = {drum'.intervalRef}]_vars

\* Two play() calls have run to their ends: two intervals are live, one of them no longer
\* referenced.
C33_TwoTimers ==
  /\ Cardinality(drum.intervals) = 2
  /\ drum.intervalRef \in drum.intervals
  /\ drum.isPlaying

\* A play() call that was awaiting when stop() ran does not start playback afterwards.
C34_NoStartStep ==
  (drum.stopped /\ drumEvent'.op \in {"resumed", "fetchSettles"}) =>
    /\ ~drum'.started
    /\ drum'.scheduled = <<>>
    /\ drum'.playbackStateRef = <<>>
    /\ drum'.intervals \subseteq drum.intervals
    /\ ~drum'.isPlaying

\* C34: if stop() is called while play() is awaiting the audio context or the sample
\* buffers, that play() does not start playback afterwards: no playback state is created,
\* no interval installed, no step scheduled, and isPlaying stays false.
C34_StoppedPlayStaysStopped == [][C34_NoStartStep]_vars

\* A play() call goes on after a stop() that ran while it was awaiting.
C34_StartsAfterStop ==
  /\ drum.stopped
  /\ drum.started
  /\ drumEvent.op = "fetchSettles"
  /\ drum.isPlaying
  /\ drum.failures = 0
  /\ drum.intervals = {drum.intervalRef}

(***************************************************************************)
(* Claims: useMetronome, the chain of interval restarts                    *)
(***************************************************************************)
\* Every tick of such a setting ends a loop that is not the last one.
EveryTickBumps == RunCompletesAtOnce /\ metroOpts.speedTrainer.loops = 0

\* C35: every beat-timer callback terminates and a tempo bump starts no unbounded chain of
\* immediate interval restarts, for all settings, one beat per measure with one repeat per
\* loop and loops = 0 included: no operation ends with the call stack exhausted.
C35_RestartsTerminate == ~metro.stackOverflow

\* The same statement for the settings other than one beat per measure, one repeat per
\* loop, loops = 0; there a firing restarts the interval at most once when a measure is
\* more than one tick or a loop more than one measure.
C35_RestartsTerminateOtherwise ==
  /\ ~EveryTickBumps => ~metro.stackOverflow
  /\ (~RunCompletesAtOnce /\ metroEvent.op = "tick") => Len(metro.clicks) <= 2

\* play() with one beat per measure, one repeat per loop and loops = 0: the immediate tick
\* of each restarted interval restarts the interval again.
C35_Chain ==
  /\ metroEvent.op = "play"
  /\ EveryTickBumps
  /\ metro.stackOverflow
  /\ Len(metro.clicks) >= MaxNesting

(***************************************************************************)
(* Claims: useMetronome, play() while playing                              *)
(***************************************************************************)
\* At most one beat or count-in interval and at most one 1 Hz interval are live.
C36_OneTimerEachState ==
  /\ Cardinality(BeatIntervals(metro) \cup CountInIntervals(metro)) <= 1
  /\ Cardinality(SecondsIntervals(metro)) <= 1

\* stop() cancels every live interval.
C36_StopCancelsStep == metroEvent'.op = "pause" => metro'.intervals = {}

\* C36: play() called while the engine is counting in or running never leaves two beat or
\* count-in intervals or two 1 Hz intervals live; at most one of each exists at any time,
\* and stop() cancels all of them.
C36_OneTimerEach == [](C36_OneTimerEachState) /\ [][C36_StopCancelsStep]_vars

\* play() called during the count-in: a second count-in interval is live and the first one
\* is no longer referenced.
C36_TwoCountIns ==
  /\ metroEvent = [op |-> "play", arg |-> 1]
  /\ Cardinality(CountInIntervals(metro)) = 2
  /\ metro.intervalRef \in {t.id : t \in CountInIntervals(metro)}

\* play() called while running with the timer on: a second 1 Hz interval is live.
C36_TwoSecondsTimers ==
  /\ metroEvent = [op |-> "play", arg |-> 1]
  /\ Cardinality(SecondsIntervals(metro)) = 2
  /\ Cardinality(BeatIntervals(metro)) = 1

(***************************************************************************)
(* Claims: useMetronome, onComplete with timer and speed trainer           *)
(***************************************************************************)
TimerAndFiniteTrainer ==
  /\ TimerActive
  /\ metroOpts.speedTrainer.enabled /\ metroOpts.speedTrainer.loops > 0

\* onComplete has been called at most once since play().
C37_OnceState == TimerAndFiniteTrainer => metro.completes <= 1

\* The callback that completes the run leaves no interval of either kind.
C37_CancelsOtherStep ==
  (TimerAndFiniteTrainer /\ metroEvent'.op \in {"tick", "secondsTick"}
     /\ metro'.completes > metro.completes) =>
    (metro'.intervals = {} /\ metro'.intervalRef = Null /\ metro'.timerIntervalRef = Null)

\* C37: with the timer and a finite speed trainer both enabled onComplete fires at most
\* once per play() run; whichever of the two completes first cancels the other, in
\* whatever order the interval callbacks run.
C37_CompleteOnce == [](C37_OnceState) /\ [][C37_CancelsOtherStep]_vars

\* The same statement for the runs that do not unfold inside startInterval.
C37_CompleteOnceOtherwise ==
  [](RunCompletesAtOnce \/ C37_OnceState) /\ [][RunCompletesAtOnce \/ C37_CancelsOtherStep]_vars

\* onComplete called by the speed trainer and again by the timer in one play() run.
C37_Twice ==
  /\ TimerAndFiniteTrainer
  /\ metroEvent.op = "secondsTick"
  /\ metro.completes = 2

\* The timer completes a run whose speed trainer is in its second loop.
C37_TimerFirst ==
  /\ TimerAndFiniteTrainer /\ ~RunCompletesAtOnce
  /\ metroEvent.op = "secondsTick"
  /\ metro.speedTrainerRef.currentLoop = 2
  /\ metro.completes = 1 /\ metro.intervals = {}

(***************************************************************************)
(* Claims: the drum looper page, the patterns                              *)
(***************************************************************************)
StrictlyIncreasing(steps) == \A i \in 1..(Len(steps) - 1) : steps[i] < steps[i + 1]

\* C38: starting from the default project, after any sequence of updateSection (changes
\* that shrink the section included), setStepState with a step of the grid, track removal
\* and addition and addSection, every pattern list of every section is strictly increasing
\* (sorted, without duplicates), every index in it is in [0, stepCount(section)), and the
\* pattern keys of each section are exactly the ids of the current tracks.
C38_PatternsNormalized ==
  \A i \in DOMAIN editor.sections :
    LET section == editor.sections[i]
    IN /\ DOMAIN section.pattern = {editor.tracks[k].id : k \in DOMAIN editor.tracks}
       /\ \A t \in DOMAIN section.pattern :
            /\ StrictlyIncreasing(section.pattern[t])
            /\ \A k \in DOMAIN section.pattern[t] :
                 section.pattern[t][k] >= 0 /\ section.pattern[t][k] < getStepCount(section)

\* A section shrunk back to 16 steps has lost its step 20 and kept steps 0 and 8, while
\* the other section holds steps 0 and 20 painted in that order or the other.
C38_Witness ==
  /\ editorEvent = "updateSection, steps dropped"
  /\ Len(editor.sections) = 2
  /\ getStepCount(editor.sections[1]) = 16
  /\ editor.sections[1].pattern["kick-1"] = <<0, 8>>
  /\ editor.sections[2].pattern["kick-1"] = <<0, 20>>

(***************************************************************************)
(* Claims: useDrumEngine, the bounds of the cursor                         *)
(***************************************************************************)
\* The published cursor points at a step of its section.
C39_CursorState ==
  drum.cursor # <<>> =>
    (drum.cursor[1].stepIndex >= 0 /\ drum.cursor[1].stepIndex < drum.cursor[1].totalSteps)

\* A cursor is published with the step count that the section at its sectionIndex has at
\* that time.
C39_TotalStepsStep ==
  (drum'.scheduled # <<>> /\ drum'.cursor # <<>>) =>
    /\ drum'.cursor[1].sectionIndex < Len(drumProject'.sections)
    /\ drum'.cursor[1].totalSteps =
         getStepCount(drumProject'.sections[drum'.cursor[1].sectionIndex + 1])

\* C39: every published cursor satisfies 0 <= stepIndex < totalSteps, with totalSteps the
\* step count of the section at sectionIndex when it was published, also when the
\* dimensions of the playing section are reduced during playback.
C39_CursorBounds == [](C39_CursorState) /\ [][C39_TotalStepsStep]_vars

\* The part of the statement about totalSteps alone.
C39_TotalSteps == [][C39_TotalStepsStep]_vars

\* The cursor published for a step that the section no longer has.
C39_CursorBeyond ==
  /\ drumEvent.op = "schedulerTick"
  /\ drum.cursor # <<>>
  /\ drum.cursor[1].stepIndex >= drum.cursor[1].totalSteps
  /\ drum.cursor[1].totalSteps = 2

(***************************************************************************)
(* Claims: useDrumEngine, the sample cache                                 *)
(***************************************************************************)
\* The step takes a play() call to preloadBuffers.
ReachesPreload ==
  \/ /\ drumEvent'.op = "play"
     /\ ~noTracks(drumProject)
     /\ drum'.audioState # "suspended"
  \/ drumEvent'.op = "resumed"

\* The calls that are awaiting sample requests, with what each still awaits.
Fetching(m) == {call \in BagToSet(m.plays) : call.pc = "fetch"}

\* A call that reaches preloadBuffers requests the distinct sample paths of the project's
\* tracks that the cache does not hold, and no other; with none missing it starts at once.
C40_RequestStep ==
  ReachesPreload =>
    LET missing == {drumProject.tracks[i].samplePath : i \in DOMAIN drumProject.tracks}
                     \ drum.sampleBufferCacheRef
        requesting == {call \in Fetching(drum') :
                         CopiesIn(call, drum'.plays) > CopiesIn(call, drum.plays)}
    IN IF missing = {}
         THEN drum'.started /\ requesting = {}
         ELSE /\ ~drum'.started /\ drum'.scheduled = <<>>
              /\ requesting # {}
              /\ \A call \in requesting :
                   /\ call.pending = missing
                   /\ CopiesIn(call, drum'.plays) = CopiesIn(call, drum.plays) + 1

\* A request that settles ok puts its path into the cache and starts playback exactly when
\* it was the last one its call awaited; a request that fails ends its call without
\* playback; the cache never loses a path.
C40_SettleStep ==
  /\ drum.sampleBufferCacheRef \subseteq drum'.sampleBufferCacheRef
  /\ drumEvent'.op = "fetchSettles" =>
       \E call \in Fetching(drum) :
         /\ drumEvent'.path \in call.pending
         /\ BagCardinality(drum'.plays) = BagCardinality(drum.plays)
                                            - (IF drum'.started \/ drumEvent'.outcome # "ok"
                                                 THEN 1 ELSE 0)
         /\ IF drumEvent'.outcome = "ok"
              THEN /\ drumEvent'.path \in drum'.sampleBufferCacheRef
                   /\ drum'.started <=> call.pending = {drumEvent'.path}
                   /\ ~drum'.started =>
                        [call EXCEPT !.pending = @ \ {drumEvent'.path}] \in Fetching(drum')
              ELSE ~drum'.started /\ drum'.scheduled = <<>>
  /\ drumEvent'.op \in {"orphanSettles", "project", "stop"} =>
       (~drum'.started /\ drum'.scheduled = <<>>)

\* C40: play() requests exactly the distinct track sample paths missing from the cache,
\* scheduling starts only after all these requests have settled successfully, and a path
\* whose buffer was decoded is not requested again by a later play().
C40_SampleCache == [][C40_RequestStep /\ C40_SettleStep]_vars

\* After a play() that cached kick.wav and failed on snare.wav, the next play() requests
\* snare.wav alone.
C40_Witness ==
  /\ drumEvent.op = "play"
  /\ drum.failures = 1
  /\ drum.sampleBufferCacheRef = {"kick.wav"}
  /\ uniquePaths(drumProject) = {"kick.wav", "snare.wav"}
  /\ \E call \in Fetching(drum) : call.pending = {"snare.wav"}
  /\ BagCardinality(drum.plays) = 1

====
